---- MODULE Spec2Model ----
(***************************************************************************)
(* Measurement orchestration of sdk/mx.sdk/mx_sdk_benchmark.py:            *)
(* BaseMicroserviceBenchmarkSuite.run_stage (native mode, one call for one *)
(* stage) and BaseMicroserviceBenchmarkSuite.run (JVM mode), the daemon    *)
(* threads they start, the service processes they launch, the scoped       *)
(* environment EmptyEnv and the latency calibration of                     *)
(* BaseWrkBenchmarkSuite.                                                  *)
(*                                                                         *)
(* Throughputs are integers in hundredths of an operation per second (the  *)
(* load generator prints two decimals), rates are whole requests/second.   *)
(***************************************************************************)
EXTENDS Integers, Sequences, FiniteSets, TLC

\* ------------------------------------------------------------------------
\* Bounds of the model and constants of the program
\* ------------------------------------------------------------------------

\* Largest number of scripts of the latency group that Init enumerates.
MaxScripts == 2

\* BaseMicroserviceBenchmarkSuite.NumMeasureTimeToFirstResponse
NumMeasureTimeToFirstResponse == 10

\* The exit code validateReturnCode accepts (terminated by SIGTERM).
GracefulExitCode == 143

\* Exit codes a service or build process may end with.
ExitCodes == {0, 1, GracefulExitCode}

\* Stage names handed to run_stage: the vocabulary of default_stages and
\* three names outside it (stages() hands on whatever names its option lists).
Stages ==
    {"agent", "instrument-image", "instrument-run", "image", "run",
     "bogus", "bogus-image", "instrument-run-bogus"}

\* A stage name as the sequence of its words and hyphens.
StageWords(s) ==
    CASE s = "agent"                -> <<"agent">>
      [] s = "instrument-image"     -> <<"instrument", "-", "image">>
      [] s = "instrument-run"       -> <<"instrument", "-", "run">>
      [] s = "image"                -> <<"image">>
      [] s = "run"                  -> <<"run">>
      [] s = "bogus"                -> <<"bogus">>
      [] s = "bogus-image"          -> <<"bogus", "-", "image">>
      [] s = "instrument-run-bogus" -> <<"instrument", "-", "run", "-", "bogus">>

\* A fixed requests-per-second of a latency script; 0 stands for an absent
\* (or falsy) entry, which c.get("requests-per-second") treats alike.
RpsValues == {0, 500}

\* Maximum throughputs wrk may report, in hundredths of an op/s:
\* 1000.00 op/s and 1001.00 op/s.
TputValues == {100000, 100100}

\* What the machine offers the load generator: a binary for its OS and
\* architecture, an OS that getOS knows but no binary for the architecture,
\* or an OS that getOS does not know.
Platforms == {"supported", "no-binary", "unsupported-os"}

\* Environments: finite maps from variable names to values.
PriorEnvs ==
    { ("PATH" :> "bin") @@ ("no_proxy" :> "local"),
      ("PATH" :> "bin") @@ ("NO_PROXY" :> "LOCAL") @@ ("HOME" :> "h"),
      ("PATH" :> "bin") }

\* Mappings a suite's get_env() may return: the base class returns {}, a
\* subclass may return variables of its own.
EmptyMap == [x \in {} |-> ""]

SuiteEnvs ==
    { EmptyMap,
      ("JAVA_HOME" :> "jdk"),
      ("JAVA_HOME" :> "jdk") @@ ("no_proxy" :> "suite") }

\* ------------------------------------------------------------------------
\* State
\* ------------------------------------------------------------------------
VARIABLES
    inNativeMode,          \* inNativeMode(): run_stage is the flow, else run
    stage,                 \* run_stage's stage argument
    nonZeroIsFatal,        \* run_stage's nonZeroIsFatal argument
    measureLatency,        \* not --skip-latency-measurements
    measureFirstResponse,  \* not --skip-first-response-measurements
    measureStartup,        \* not --skip-startup-measurements
    measurePeak,           \* not --skip-peak-measurements
    latencyRps,            \* per latency script: requests-per-second, 0 if none
    platform,              \* what mx.get_os() and the load-generator library offer
    suiteEnv,              \* the mapping get_env() returns
    suiteEnv0,             \* that mapping as the suite built it (never changes)
    priorEnv,              \* os.environ before the flow started (never changes)
    os_environ,            \* os.environ
    prev_environ,          \* EmptyEnv._prev_environ of the phase in progress
    pc,                    \* position of the controlling flow
    block,                 \* the phase the controlling flow is in
    ttfrIter,              \* loop index of the time-to-first-response loop
    returnCode,            \* returnCode of the last service invocation
    pendingExc,            \* an exception is unwinding through the with block
    abortCause,            \* why the controlling flow aborted
    threads,               \* records of the threads not yet joined
    nThreads,              \* number of threads created so far
    measurementThread,     \* id of the thread startDaemonThread returned last
    procs,                 \* records of the processes mx.run has not yet reaped
    nProcs,                \* number of processes launched so far
    calibratedThroughput,  \* self.calibratedThroughput (<< >> while unset or empty)
    latencyRates,          \* rates testLatency handed to the rate-controlled tool
    measuredMax,           \* history: throughput wrk reported per script in calibration
    started,               \* history: phases in the order their thread started
    retcodes,              \* history: exit codes of the commands mx.run has run
    nPhases,               \* history: number of with EmptyEnv blocks entered
    trackerEnabled,        \* mx_benchmark's tracker switch (disable_/enable_tracker)
    hooksEnabled,          \* mx's command mapper hooks switch
    tracked,               \* history: per service launched, the RSS tracker wraps it
    buffers,               \* the suite's four measurement buffers
    lastReport,            \* what runAndReturnStdOut returned last, and in which block
    call,                  \* a function evaluated on its own: its name and arguments
    result,                \* what that function returned and the state it left
    probe                  \* locals of a measureTimeToFirstResponse call in progress

configVars == <<inNativeMode, stage, nonZeroIsFatal, measureLatency,
                measureFirstResponse, measureStartup, measurePeak, latencyRps,
                platform, priorEnv, suiteEnv0>>
envVars    == <<suiteEnv, os_environ, prev_environ>>
flowVars   == <<pc, block, ttfrIter, returnCode, pendingExc, abortCause>>
threadVars == <<threads, nThreads, measurementThread>>
procVars   == <<procs, nProcs>>
wrkVars    == <<calibratedThroughput, latencyRates, measuredMax>>
histVars   == <<started, retcodes, nPhases>>
hookVars   == <<trackerEnabled, hooksEnabled, tracked>>
outVars    == <<buffers, lastReport>>
fnVars     == <<call, result, probe>>

vars == <<configVars, envVars, flowVars, threadVars, procVars, wrkVars, histVars,
          hookVars, outVars, fnVars>>

\* ------------------------------------------------------------------------
\* Helpers
\* ------------------------------------------------------------------------

\* All sequences over S of length 1 .. n.
SeqsUpTo(S, n) == UNION { [1..k -> S] : k \in 1..n }

\* The finite map m with key k bound to v (dict assignment m[k] = v).
SetItem(m, k, v) == [x \in DOMAIN m \cup {k} |-> IF x = k THEN v ELSE m[x]]

\* Mutant of ContainsImage: equality with 'image' in place of the substring
\* test.
ContainsImageExact(s) == StageWords(s) = <<"image">>

\* sub in text (Python's substring test), over sequences of words.
Contains(sub, text) ==
    \E i \in 0..(Len(text) - Len(sub)) : SubSeq(text, i + 1, i + Len(sub)) = sub

\* 'image' in stage
ContainsImage(s) == Contains(<<"image">>, StageWords(s))

\* 'instrument-run' in stage
ContainsInstrumentRun(s) == Contains(<<"instrument", "-", "run">>, StageWords(s))

\* Mutant of validateReturnCode: the exit code 0 passes as well.
validateReturnCodeOrZero(retcode) == retcode \in {0, GracefulExitCode}

\* BaseMicroserviceBenchmarkSuite.validateReturnCode
validateReturnCode(retcode) == retcode = GracefulExitCode

\* mx.run(..., nonZeroIsFatal): aborts instead of returning a non-zero code.
RunRaises(code, fatal) == fatal /\ code # 0

\* Mutant of NeedsCalibration: calibrate as soon as one script has no rate.
NeedsCalibrationAnyMissing(rps) == \E i \in DOMAIN rps : rps[i] = 0

\* not any([c.get("requests-per-second") for c in loadConfiguration("latency")])
NeedsCalibration(rps) == ~ \E i \in DOMAIN rps : rps[i] # 0

\* Mutant of CalibratedRate: the product rounded up.
CalibratedRateCeil(c) == (75 * c + 9999) \div 10000

\* int(x * 0.75) for x = c / 100: truncation of 75 * c / 10000.
CalibratedRate(c) == (75 * c) \div 10000

\* Mutant of ExpectedRate: the 75% of the calibrated branch applied to the
\* configured rate as well.
ExpectedRateScaled(rps, calibrated, i) ==
    IF rps[i] # 0 THEN (75 * rps[i]) \div 100
    ELSE CalibratedRate(calibrated[i])

\* expectedRate of script i in testLatency.
ExpectedRate(rps, calibrated, i) ==
    IF rps[i] # 0 THEN rps[i] ELSE CalibratedRate(calibrated[i])

\* ------------------------------------------------------------------------
\* EmptyEnv
\* ------------------------------------------------------------------------

\* Mutant of EmptyEnvEnter: os.environ is the mapping itself, not a copy.
EmptyEnvEnterNoCopy(env, prev) ==
    LET e1 == IF "no_proxy" \in DOMAIN prev
              THEN SetItem(env, "no_proxy", prev["no_proxy"]) ELSE env
        e2 == IF "NO_PROXY" \in DOMAIN prev
              THEN SetItem(e1, "NO_PROXY", prev["NO_PROXY"]) ELSE e1
    IN  [environ |-> e2, env |-> e2]

\* EmptyEnv.__enter__: the new os.environ and what becomes of the mapping
\* passed to EmptyEnv (os.environ is a copy of it, so it stays as it was).
EmptyEnvEnter(env, prev) ==
    LET copied == env
        e1 == IF "no_proxy" \in DOMAIN prev
              THEN SetItem(copied, "no_proxy", prev["no_proxy"]) ELSE copied
        e2 == IF "NO_PROXY" \in DOMAIN prev
              THEN SetItem(e1, "NO_PROXY", prev["NO_PROXY"]) ELSE e1
    IN  [environ |-> e2, env |-> env]

\* Mutant of EmptyEnvExit: no restoration while an exception unwinds.
EmptyEnvExitOnSuccess(prev, current, exc) == IF exc THEN current ELSE prev

\* EmptyEnv.__exit__: the os.environ it leaves.
EmptyEnvExit(prev, current, exc) == prev

\* ------------------------------------------------------------------------
\* Initial states
\* ------------------------------------------------------------------------
\* The measurement buffers of a suite: timeToFirstResponseOutputs,
\* startupOutput, peakOutput, latencyOutput.
Buffers(ttfr, startup, peak, latency) ==
    [timeToFirstResponseOutputs |-> ttfr, startupOutput |-> startup,
     peakOutput |-> peak, latencyOutput |-> latency]

\* The buffers as __init__ and the reset of runAndReturnStdOut leave them.
EmptyBuffers == Buffers(<< >>, << >>, << >>, << >>)

\* No call of runAndReturnStdOut has returned yet.
NoReport == [block |-> "none", out |-> << >>]

\* The state run_stage or run starts in, whatever its inputs are.
InitFlow ==
    /\ (~inNativeMode => stage = "run" /\ nonZeroIsFatal = FALSE)
    /\ suiteEnv0 = suiteEnv
    /\ os_environ = priorEnv
    /\ prev_environ = EmptyMap
    /\ pc = "entry"
    /\ block = "none"
    /\ ttfrIter = 0
    /\ returnCode = -1
    /\ pendingExc = FALSE
    /\ abortCause = "none"
    /\ threads = {}
    /\ nThreads = 0
    /\ measurementThread = 0
    /\ procs = {}
    /\ nProcs = 0
    /\ calibratedThroughput = << >>
    /\ latencyRates = << >>
    /\ measuredMax = << >>
    /\ started = << >>
    /\ retcodes = << >>
    /\ nPhases = 0
    /\ trackerEnabled = TRUE
    /\ hooksEnabled = TRUE
    /\ tracked = << >>
    /\ buffers = EmptyBuffers
    /\ lastReport = NoReport

\* No function is evaluated on its own while a flow runs.
NoCall == [fn |-> "none"]

\* The result of a function that has not returned yet.
NoResult == [done |-> FALSE]

\* No call of measureTimeToFirstResponse is followed step by step.
NoProbe == [pc |-> "none"]

\* Every mode, stage, skip flag and latency configuration, in one environment.
Init ==
    /\ call = NoCall /\ result = NoResult /\ probe = NoProbe
    /\ inNativeMode \in BOOLEAN
    /\ stage \in Stages
    /\ nonZeroIsFatal \in BOOLEAN
    /\ measureLatency \in BOOLEAN
    /\ measureFirstResponse \in BOOLEAN
    /\ measureStartup \in BOOLEAN
    /\ measurePeak \in BOOLEAN
    /\ latencyRps \in SeqsUpTo(RpsValues, MaxScripts)
    /\ platform = "supported"
    /\ suiteEnv = EmptyMap
    /\ priorEnv = ("PATH" :> "bin") @@ ("no_proxy" :> "local")
    /\ InitFlow

\* Every mode, stage, prior environment and get_env() mapping, nothing skipped.
InitEnv ==
    /\ call = NoCall /\ result = NoResult /\ probe = NoProbe
    /\ inNativeMode \in BOOLEAN
    /\ stage \in Stages
    /\ nonZeroIsFatal \in BOOLEAN
    /\ measureLatency = TRUE
    /\ measureFirstResponse = TRUE
    /\ measureStartup = TRUE
    /\ measurePeak = TRUE
    /\ latencyRps \in SeqsUpTo(RpsValues, 1)
    /\ platform = "supported"
    /\ suiteEnv \in SuiteEnvs
    /\ priorEnv \in PriorEnvs
    /\ InitFlow

\* ------------------------------------------------------------------------
\* The order of the measurement phases
\* ------------------------------------------------------------------------

\* Mutant of PhaseOrder: peak performance measured before startup.
PhaseOrderPeakFirst == <<"ttfr", "peak", "startup", "calib", "latency">>

\* The measurement blocks of run_stage (stage 'run') and of run, in the order
\* the code holds them.
PhaseOrder == <<"ttfr", "startup", "peak", "calib", "latency">>

\* Whether the flow executes block b: run_stage (native) guards only the
\* latency blocks, run (JVM) guards every block with its skip flag.
BlockEnabled(native, b, mFirst, mStartup, mPeak, mLatency, rps) ==
    CASE b = "ttfr"    -> native \/ mFirst
      [] b = "startup" -> native \/ mStartup
      [] b = "peak"    -> native \/ mPeak
      [] b = "calib"   -> mLatency /\ NeedsCalibration(rps)
      [] b = "latency" -> mLatency
      [] OTHER         -> FALSE

Executes(b) ==
    BlockEnabled(inNativeMode, b, measureFirstResponse, measureStartup,
                 measurePeak, measureLatency, latencyRps)

\* The first block at position k or later that the flow executes, "return"
\* when there is none.
BlockFrom(k) ==
    LET later == { j \in k..Len(PhaseOrder) : Executes(PhaseOrder[j]) }
    IN  IF later = {} THEN "return"
        ELSE PhaseOrder[CHOOSE j \in later : \A i \in later : j <= i]

\* Position of block b in PhaseOrder.
PositionOf(b) == CHOOSE j \in 1..Len(PhaseOrder) : PhaseOrder[j] = b

\* The block after block b, the time-to-first-response loop having run its
\* iteration number iter (0-based).
BlockAfter(b, iter) ==
    IF b = "ttfr" /\ iter + 1 < NumMeasureTimeToFirstResponse
    THEN "ttfr"
    ELSE BlockFrom(PositionOf(b) + 1)

\* Mutant of PeakWarmup: the default argument in every stage.
PeakWarmupDefault(native, s) == TRUE

\* The warmup argument of testPeakPerformanceInBackground: the default (True)
\* in stage 'run' and in run, False in the agent and instrument-run stages.
PeakWarmup(native, s) == ~native \/ s = "run"

\* ------------------------------------------------------------------------
\* Threads and processes
\* ------------------------------------------------------------------------

\* A thread that has neither returned nor ended by an abort ("aborted":
\* mx.abort) or by an exception that left its target ("raised").
Alive(t) == t.pc \notin {"done", "aborted", "raised"}

\* A process that has not exited.
Running(p) == p.state # "exited"

\* waitForPort's lookup: the processes with a listening socket on the port.
Listening(ps) == { p \in ps : p.state = "listening" }

\* Mutant of JoinReturns: join() does not wait.
JoinReturnsAtOnce(ths, id) == TRUE

\* threading.Thread.join returns once the thread has ended.
JoinReturns(ths, id) == ~ \E t \in ths : t.id = id /\ Alive(t)

\* Mutant of Exited: mx.run does not wait for the process to exit.
ExitedOrRunning(ps, id) == { p \in ps : p.id = id }

\* mx.run's wait: the exited process with this id, if there is one.
Exited(ps, id) == { p \in ps : p.id = id /\ p.state = "exited" }

\* The record of a thread made by startDaemonThread for block b.
NewThread(id, b, warmup) ==
    [id |-> id, target |-> b, warmup |-> warmup,
     pc |-> IF b = "ttfr" THEN "measure" ELSE "waitPort",
     probes |-> 0, portFound |-> FALSE,
     workloadInvoked |-> FALSE, warmupRun |-> FALSE, workloadReturned |-> FALSE,
     generatorStarted |-> FALSE, terminateCalls |-> 0, signalSent |-> FALSE]

\* The record of a process launched by mx.run.
NewProc(id, kind, b) ==
    [id |-> id, kind |-> kind, phase |-> b,
     state |-> IF kind = "service" THEN "starting" ELSE "building",
     signalled |-> FALSE, code |-> -1]

\* threads with thread t replaced by u.
ReplaceThread(t, u) == (threads \ {t}) \cup {u}

\* procs with process p replaced by q.
ReplaceProc(p, q) == (procs \ {p}) \cup {q}

\* ------------------------------------------------------------------------
\* The RSS tracker and the command mapper hooks
\* ------------------------------------------------------------------------

\* run (JVM mode): the tracker switch as the code ahead of block b leaves it;
\* mx_benchmark.disable_tracker() precedes the startup block and the
\* calibration block.
TrackerEntering(b, tracker) ==
    IF b \in {"startup", "calib"} THEN FALSE ELSE tracker

\* run (JVM mode): the tracker switch as the code behind block b leaves it;
\* mx_benchmark.enable_tracker() follows the startup block and the latency
\* block.
TrackerLeaving(b, tracker) ==
    IF b \in {"startup", "latency"} THEN TRUE ELSE tracker

\* run (JVM mode): mx.disable_command_mapper_hooks() precedes the
\* time-to-first-response loop.
HooksEntering(b, hooks) == IF b = "ttfr" THEN FALSE ELSE hooks

\* run (JVM mode): mx.enable_command_mapper_hooks() follows the loop.
HooksLeaving(b, hooks) == IF b = "ttfr" THEN TRUE ELSE hooks

\* Whether the service of block b is launched under the RSS tracker. In
\* native mode the command says it: server_command (time to first response,
\* agent, instrument-run) has no hooks, serverCommandWithoutTracker is built
\* between disable_tracker() and enable_tracker(), serverCommandWithTracker
\* (peak) is built with the hooks as run_stage found them. In JVM mode the
\* framework applies the hooks, the tracker among them, as the two switches
\* stand at the launch.
ServiceTracked(native, s, b, tracker, hooks) ==
    IF native THEN s = "run" /\ b = "peak" /\ tracker /\ hooks
    ELSE tracker /\ hooks

\* ------------------------------------------------------------------------
\* The controlling flow: run_stage (native mode) and run (JVM mode)
\* ------------------------------------------------------------------------

\* run_stage, 'image' in stage: the build command is run by
\* NativeImageBenchmarkMixin.run_stage, no thread, no EmptyEnv.
RunStageImage ==
    /\ pc = "entry" /\ inNativeMode /\ ContainsImage(stage)
    /\ procs' = procs \cup {NewProc(nProcs + 1, "build", "none")}
    /\ nProcs' = nProcs + 1
    /\ pc' = "build"
    /\ UNCHANGED <<fnVars, configVars, hookVars, outVars, envVars, block, ttfrIter, returnCode, pendingExc,
                   abortCause, threadVars, wrkVars, histVars>>

\* The build command has exited: mx.run returns its code, which run_stage
\* returns verbatim, or aborts on a non-zero code when nonZeroIsFatal.
BuildReturn ==
    /\ pc = "build"
    /\ \E p \in Exited(procs, nProcs) :
        /\ procs' = { q \in procs : q # p \/ Running(q) }
        /\ retcodes' = Append(retcodes, p.code)
        /\ IF RunRaises(p.code, nonZeroIsFatal)
           THEN /\ pc' = "aborted" /\ abortCause' = "service"
                /\ UNCHANGED returnCode
           ELSE /\ pc' = "returned" /\ returnCode' = p.code
                /\ UNCHANGED abortCause
    /\ UNCHANGED <<fnVars, configVars, hookVars, outVars, envVars, block, ttfrIter, pendingExc, nProcs,
                   threadVars, wrkVars, started, nPhases>>

\* run_stage, stage == 'run': the first measurement block.
RunStageRun ==
    /\ pc = "entry" /\ inNativeMode /\ ~ContainsImage(stage) /\ stage = "run"
    /\ block' = BlockFrom(1)
    /\ trackerEnabled' = TRUE
    /\ pc' = "enter"
    /\ UNCHANGED <<fnVars, configVars, hooksEnabled, tracked, outVars, envVars, ttfrIter, returnCode, pendingExc,
                   abortCause, threadVars, procVars, wrkVars, histVars>>

\* run_stage, stage == 'agent' or 'instrument-run' in stage: the peak block.
RunStageAgent ==
    /\ pc = "entry" /\ inNativeMode /\ ~ContainsImage(stage) /\ stage # "run"
    /\ (stage = "agent" \/ ContainsInstrumentRun(stage))
    /\ block' = "peak"
    /\ pc' = "enter"
    /\ UNCHANGED <<fnVars, configVars, hookVars, outVars, envVars, ttfrIter, returnCode, pendingExc,
                   abortCause, threadVars, procVars, wrkVars, histVars>>

\* run_stage, any other stage: mx.abort("Unexpected stage: " + stage).
RunStageUnexpected ==
    /\ pc = "entry" /\ inNativeMode /\ ~ContainsImage(stage) /\ stage # "run"
    /\ ~(stage = "agent" \/ ContainsInstrumentRun(stage))
    /\ pc' = "aborted"
    /\ abortCause' = "stage"
    /\ UNCHANGED <<fnVars, configVars, hookVars, outVars, envVars, block, ttfrIter, returnCode, pendingExc,
                   threadVars, procVars, wrkVars, histVars>>

\* run, not inNativeMode(): the first block whose skip flag is not set, or
\* the return of the (empty) datapoints.
RunJvm ==
    /\ pc = "entry" /\ ~inNativeMode
    /\ block' = BlockFrom(1)
    /\ trackerEnabled' = TrackerEntering(BlockFrom(1), trackerEnabled)
    /\ hooksEnabled' = HooksEntering(BlockFrom(1), hooksEnabled)
    /\ pc' = IF BlockFrom(1) = "return" THEN "returned" ELSE "enter"
    /\ UNCHANGED <<fnVars, configVars, tracked, outVars, envVars, ttfrIter, returnCode, pendingExc,
                   abortCause, threadVars, procVars, wrkVars, histVars>>

\* with EmptyEnv(self.get_env()): __enter__.
EnterPhase ==
    /\ pc = "enter"
    /\ LET r == EmptyEnvEnter(suiteEnv, os_environ)
       IN  /\ prev_environ' = os_environ
           /\ os_environ' = r.environ
           /\ suiteEnv' = r.env
    /\ nPhases' = nPhases + 1
    /\ pc' = "start"
    /\ UNCHANGED <<fnVars, configVars, hookVars, outVars, block, ttfrIter, returnCode, pendingExc,
                   abortCause, threadVars, procVars, wrkVars, started, retcodes>>

\* measurementThread = self.startDaemonThread(target, args)
StartDaemonThread ==
    /\ pc = "start"
    /\ threads' = threads \cup
          {NewThread(nThreads + 1, block, PeakWarmup(inNativeMode, stage))}
    /\ nThreads' = nThreads + 1
    /\ measurementThread' = nThreads + 1
    /\ started' = Append(started, block)
    /\ pc' = "service"
    /\ UNCHANGED <<fnVars, configVars, hookVars, outVars, envVars, block, ttfrIter, returnCode, pendingExc,
                   abortCause, procVars, wrkVars, retcodes, nPhases>>

\* mx.run(server_command, ...) (native) or super().run(benchmarks, remainder)
\* (JVM) launches the service process and blocks.
LaunchService ==
    /\ pc = "service"
    /\ procs' = procs \cup {NewProc(nProcs + 1, "service", block)}
    /\ nProcs' = nProcs + 1
    /\ tracked' = Append(tracked, ServiceTracked(inNativeMode, stage, block,
                                                 trackerEnabled, hooksEnabled))
    /\ pc' = "wait"
    /\ UNCHANGED <<fnVars, configVars, trackerEnabled, hooksEnabled, outVars, envVars, block, ttfrIter, returnCode, pendingExc,
                   abortCause, threadVars, wrkVars, histVars>>

\* Whether the service invocation raises instead of returning: mx.run under
\* nonZeroIsFatal (native); in JVM mode the benchmark framework's run, which
\* aborts on an exit code that validateReturnCode rejects.
InvocationRaises(native, code, fatal) ==
    IF native THEN RunRaises(code, fatal) ELSE ~validateReturnCode(code)

\* Mutant of AfterServiceReturn: join() is never reached.
AfterServiceReturnNoJoin(raises) == "exit"

\* Where the flow goes from the service invocation: on to join(), or, when
\* the invocation raises, out of the with block through __exit__.
AfterServiceReturn(raises) == IF raises THEN "exit" ELSE "join"

\* The service process has exited: the invocation returns its code or raises.
ServiceReturn ==
    /\ pc = "wait"
    /\ \E p \in Exited(procs, nProcs) :
        /\ procs' = { q \in procs : q # p \/ Running(q) }
        /\ retcodes' = Append(retcodes, p.code)
        /\ IF InvocationRaises(inNativeMode, p.code, nonZeroIsFatal)
           THEN /\ pendingExc' = TRUE /\ abortCause' = "service"
                /\ UNCHANGED returnCode
           ELSE /\ returnCode' = p.code
                /\ UNCHANGED <<pendingExc, abortCause>>
        /\ pc' = AfterServiceReturn(
                    InvocationRaises(inNativeMode, p.code, nonZeroIsFatal))
    /\ UNCHANGED <<fnVars, configVars, hookVars, outVars, envVars, block, ttfrIter, nProcs, threadVars,
                   wrkVars, started, nPhases>>

\* measurementThread.join()
Join ==
    /\ pc = "join"
    /\ JoinReturns(threads, measurementThread)
    /\ threads' = { t \in threads : t.id # measurementThread \/ Alive(t) }
    /\ pc' = "exit"
    /\ UNCHANGED <<fnVars, configVars, hookVars, outVars, envVars, block, ttfrIter, returnCode, pendingExc,
                   abortCause, nThreads, measurementThread, procVars, wrkVars,
                   histVars>>

\* EmptyEnv.__exit__, on the normal path and while an exception unwinds.
ExitPhase ==
    /\ pc = "exit"
    /\ os_environ' = EmptyEnvExit(prev_environ, os_environ, pendingExc)
    /\ pc' = IF pendingExc THEN "aborted" ELSE "after"
    /\ UNCHANGED <<fnVars, configVars, hookVars, outVars, suiteEnv, prev_environ, block, ttfrIter,
                   returnCode, pendingExc, abortCause, threadVars, procVars,
                   wrkVars, histVars>>

\* Whether the flow checks validateReturnCode(returnCode) after a block:
\* run_stage does in stage 'run' and does not in the agent and instrument-run
\* stages; run (JVM) has no check of its own.
ValidatesAfterPhase(native, s) == native /\ s = "run"

\* if not self.validateReturnCode(returnCode): mx.abort(...)
ValidateAbort ==
    /\ pc = "after"
    /\ ValidatesAfterPhase(inNativeMode, stage)
    /\ ~validateReturnCode(returnCode)
    /\ pc' = "aborted"
    /\ abortCause' = "validate"
    /\ UNCHANGED <<fnVars, configVars, hookVars, outVars, envVars, block, ttfrIter, returnCode, pendingExc,
                   threadVars, procVars, wrkVars, histVars>>

\* The flow goes on to its next block, or returns after the last one.
NextPhase ==
    /\ pc = "after"
    /\ ValidatesAfterPhase(inNativeMode, stage) => validateReturnCode(returnCode)
    /\ LET next == IF inNativeMode /\ stage # "run"
                   THEN "return"
                   ELSE BlockAfter(block, ttfrIter)
       IN  /\ block' = next
           /\ pc' = IF next = "return" THEN "returned" ELSE "enter"
           /\ ttfrIter' = IF block = "ttfr" THEN ttfrIter + 1 ELSE ttfrIter
           /\ trackerEnabled' =
                 IF inNativeMode \/ next = block THEN trackerEnabled
                 ELSE TrackerEntering(next, TrackerLeaving(block, trackerEnabled))
           /\ hooksEnabled' =
                 IF inNativeMode \/ next = block THEN hooksEnabled
                 ELSE HooksEntering(next, HooksLeaving(block, hooksEnabled))
    /\ UNCHANGED <<fnVars, configVars, tracked, outVars, envVars, returnCode, pendingExc, abortCause,
                   threadVars, procVars, wrkVars, histVars>>

\* ------------------------------------------------------------------------
\* The launched processes
\* ------------------------------------------------------------------------

\* The service binds its port and accepts connections.
ProcBind ==
    /\ \E p \in procs :
        /\ p.state = "starting"
        /\ procs' = ReplaceProc(p, [p EXCEPT !.state = "listening"])
    /\ UNCHANGED <<fnVars, configVars, hookVars, outVars, envVars, flowVars, threadVars, nProcs, wrkVars,
                   histVars>>

\* A process exits, with the graceful code after SIGTERM or with any other
\* code (it may also end on its own, signalled or not).
ProcExit ==
    /\ \E p \in procs, c \in ExitCodes :
        /\ Running(p)
        /\ procs' = ReplaceProc(p, [p EXCEPT !.state = "exited", !.code = c])
    /\ UNCHANGED <<fnVars, configVars, hookVars, outVars, envVars, flowVars, threadVars, nProcs, wrkVars,
                   histVars>>

\* ------------------------------------------------------------------------
\* The background tasks (test*InBackground)
\* ------------------------------------------------------------------------

\* Where a task goes after waitForPort has found the service: the
\* time-to-first-response task has no workload of its own left.
AfterPortFound(target) == IF target = "ttfr" THEN "terminate" ELSE "workload"

\* measureTimeToFirstResponse: a 200 response arrives within the budget.
MeasureFirstResponse ==
    /\ \E t \in threads :
        /\ t.pc = "measure"
        /\ Listening(procs) # {}
        /\ threads' = ReplaceThread(t, [t EXCEPT !.pc = "waitPort"])
    /\ UNCHANGED <<fnVars, configVars, hookVars, outVars, envVars, flowVars, nThreads, measurementThread,
                   procVars, wrkVars, histVars>>

\* measureTimeToFirstResponse: no 200 response within 120 s, mx.abort.
MeasureFirstResponseTimeout ==
    /\ \E t \in threads :
        /\ t.pc = "measure"
        /\ threads' = ReplaceThread(t, [t EXCEPT !.pc = "aborted"])
    /\ UNCHANGED <<fnVars, configVars, hookVars, outVars, envVars, flowVars, nThreads, measurementThread,
                   procVars, wrkVars, histVars>>

\* Mutant of AfterWaitForPort: the task goes on when no process was found.
AfterWaitForPortUnchecked(t, found) ==
    [t EXCEPT !.pc = AfterPortFound(t.target), !.probes = @ + 1,
              !.portFound = (found # {})]

\* The task's step after waitForPort(servicePort()), given the processes the
\* lookup found: on with the task, or mx.abort when it found none.
AfterWaitForPort(t, found) ==
    IF found # {}
    THEN [t EXCEPT !.pc = AfterPortFound(t.target), !.probes = @ + 1,
                   !.portFound = TRUE]
    ELSE [t EXCEPT !.pc = "aborted", !.probes = @ + 1]

\* if not waitForPort(servicePort()): mx.abort(...)
WaitForPort ==
    /\ \E t \in threads :
        /\ t.pc = "waitPort"
        /\ threads' = ReplaceThread(t, AfterWaitForPort(t, Listening(procs)))
    /\ UNCHANGED <<fnVars, configVars, hookVars, outVars, envVars, flowVars, nThreads, measurementThread,
                   procVars, wrkVars, histVars>>

\* Whether the workload of a task makes warmup runs of the load generator:
\* testPeakPerformance does when its warmup argument is set,
\* calibrateLatencyTest and testLatency always do, testStartupPerformance
\* never does.
RunsWarmup(target, warmup) ==
    (target = "peak" /\ warmup) \/ target \in {"calib", "latency"}

\* The task's step after its workload has returned.
AfterWorkload(t) ==
    [t EXCEPT !.pc = "terminate", !.workloadInvoked = TRUE,
              !.warmupRun = RunsWarmup(t.target, t.warmup),
              !.generatorStarted = TRUE,
              !.workloadReturned = TRUE]

\* The task's end when its workload aborts or raises, a warmup run made
\* before (warmed) or not, a load-generator process started (ran) or not.
WorkloadAborted(t, warmed, ran) ==
    [t EXCEPT !.pc = "aborted", !.workloadInvoked = TRUE, !.warmupRun = warmed,
              !.generatorStarted = ran]

\* Mutant of GeneratorAvailable: a binary on every platform.
GeneratorAvailableAnywhere(p) == TRUE

\* runWrk1 / runWrk2 get as far as mx.run(runWrkCmd): getOS knows the OS and
\* the binary wrk-{os}-{arch} exists.
GeneratorAvailable(p) == p = "supported"

\* testStartupPerformance() / testPeakPerformance(warmup) return.
WorkloadThroughput ==
    /\ \E t \in threads :
        /\ t.pc = "workload" /\ t.target \in {"startup", "peak"}
        /\ GeneratorAvailable(platform)
        /\ threads' = ReplaceThread(t, AfterWorkload(t))
    /\ UNCHANGED <<fnVars, configVars, hookVars, outVars, envVars, flowVars, nThreads, measurementThread,
                   procVars, wrkVars, histVars>>

\* A workload fails before it changes any state of the suite: mx.abort on a
\* bad configuration or unparsable output, an exception of the tool runner,
\* before the warmup run or after it, before the first load-generator
\* process or after it.
WorkloadFails ==
    /\ \E t \in threads, warmed \in BOOLEAN, ran \in BOOLEAN :
        /\ t.pc = "workload"
        /\ warmed => RunsWarmup(t.target, t.warmup) /\ ran
        /\ ran => GeneratorAvailable(platform)
        /\ threads' = ReplaceThread(t, WorkloadAborted(t, warmed, ran))
    /\ UNCHANGED <<fnVars, configVars, hookVars, outVars, envVars, flowVars, nThreads, measurementThread,
                   procVars, wrkVars, histVars>>

\* calibrateLatencyTest(): after the warmups, self.calibratedThroughput is
\* reset and receives the throughput measured for each script, in script
\* order; a failure after k measurements leaves the first k stored.
Calibrate ==
    /\ \E t \in threads, m \in [1..Len(latencyRps) -> TputValues],
          k \in 0..Len(latencyRps) :
        /\ t.pc = "workload" /\ t.target = "calib"
        /\ GeneratorAvailable(platform)
        /\ measuredMax' = [i \in 1..k |-> m[i]]
        /\ calibratedThroughput' = [i \in 1..k |-> m[i]]
        /\ threads' = ReplaceThread(t,
              IF k = Len(latencyRps) THEN AfterWorkload(t)
              ELSE WorkloadAborted(t, TRUE, TRUE))
    /\ UNCHANGED <<fnVars, configVars, hookVars, outVars, envVars, flowVars, nThreads, measurementThread,
                   procVars, latencyRates, histVars>>

\* The scripts of testLatency's measurement loop that can be given a rate:
\* script i has a fixed rate, or a calibrated throughput is stored for it.
HasRate(rps, calibrated, i) == rps[i] # 0 \/ i \in DOMAIN calibrated

\* testLatency(): after the warmups, every script is measured at its
\* expectedRate; the loop ends early (k < n) on a failure, and cannot pass a
\* script that has neither a fixed rate nor a calibrated throughput.
TestLatency ==
    /\ \E t \in threads, k \in 0..Len(latencyRps) :
        /\ t.pc = "workload" /\ t.target = "latency"
        /\ GeneratorAvailable(platform)
        /\ \A i \in 1..k : HasRate(latencyRps, calibratedThroughput, i)
        /\ latencyRates' =
              [i \in 1..k |-> ExpectedRate(latencyRps, calibratedThroughput, i)]
        /\ threads' = ReplaceThread(t,
              IF k = Len(latencyRps) THEN AfterWorkload(t)
              ELSE WorkloadAborted(t, TRUE, TRUE))
    /\ UNCHANGED <<fnVars, configVars, hookVars, outVars, envVars, flowVars, nThreads, measurementThread,
                   procVars, calibratedThroughput, measuredMax, histVars>>

\* Mutant of AfterTerminate: the result of terminateApplication is ignored.
AfterTerminateIgnored(t, ok) ==
    [t EXCEPT !.pc = "done", !.terminateCalls = @ + 1, !.signalSent = ok]

\* The task's step after terminateApplication(servicePort()) returned ok:
\* the task is done, or mx.abort when it returned False.
AfterTerminate(t, ok) ==
    IF ok
    THEN [t EXCEPT !.pc = "done", !.terminateCalls = @ + 1, !.signalSent = TRUE]
    ELSE [t EXCEPT !.pc = "aborted", !.terminateCalls = @ + 1]

\* terminateApplication(port): one lookup; SIGTERM to the process found and
\* True, or False, on which the task calls mx.abort.
TerminateApplication ==
    /\ \E t \in threads :
        /\ t.pc = "terminate"
        /\ IF Listening(procs) # {}
           THEN \E p \in Listening(procs) :
                  /\ procs' = ReplaceProc(p, [p EXCEPT !.signalled = TRUE])
                  /\ threads' = ReplaceThread(t, AfterTerminate(t, TRUE))
           ELSE /\ threads' = ReplaceThread(t, AfterTerminate(t, FALSE))
                /\ UNCHANGED procs
    /\ UNCHANGED <<fnVars, configVars, hookVars, outVars, envVars, flowVars, nThreads, measurementThread,
                   nProcs, wrkVars, histVars>>

\* ------------------------------------------------------------------------
\* Specification
\* ------------------------------------------------------------------------
Next ==
    \/ RunStageImage \/ BuildReturn \/ RunStageRun \/ RunStageAgent
    \/ RunStageUnexpected \/ RunJvm
    \/ EnterPhase \/ StartDaemonThread \/ LaunchService \/ ServiceReturn
    \/ Join \/ ExitPhase \/ ValidateAbort \/ NextPhase
    \/ ProcBind \/ ProcExit
    \/ MeasureFirstResponse \/ MeasureFirstResponseTimeout \/ WaitForPort
    \/ WorkloadThroughput \/ WorkloadFails \/ Calibrate \/ TestLatency
    \/ TerminateApplication

Spec == Init /\ [][Next]_vars

SpecEnv == InitEnv /\ [][Next]_vars

\* ------------------------------------------------------------------------
\* Functions evaluated on their own
\* ------------------------------------------------------------------------
\* A text is a sequence of tokens; the token "\n" is the line break.

\* The flow state of the specifications that evaluate one function: a suite
\* just constructed, in native mode, no flow started.
InitIdle ==
    /\ inNativeMode = TRUE /\ stage = "run" /\ nonZeroIsFatal = FALSE
    /\ measureLatency = TRUE /\ measureFirstResponse = TRUE
    /\ measureStartup = TRUE /\ measurePeak = TRUE
    /\ latencyRps = <<0>>
    /\ platform = "supported"
    /\ suiteEnv = EmptyMap
    /\ priorEnv = ("PATH" :> "bin")
    /\ InitFlow

\* sep.join(texts)
RECURSIVE StrJoin(_, _)
StrJoin(sep, texts) ==
    IF Len(texts) = 0 THEN << >>
    ELSE IF Len(texts) = 1 THEN texts[1]
    ELSE texts[1] \o sep \o StrJoin(sep, Tail(texts))

\* Mutant of runAndReturnStdOut: the peak output ahead of the startup output.
runAndReturnStdOutPeakFirst(native, under, bufs) ==
    [value |-> [ret_code |-> under.ret_code,
                out |-> StrJoin(<<"\n">>, bufs.timeToFirstResponseOutputs)
                          \o <<"\n">> \o bufs.peakOutput
                          \o <<"\n">> \o bufs.startupOutput
                          \o <<"\n">> \o bufs.latencyOutput
                          \o <<"\n">> \o under.out,
                dims |-> under.dims],
     bufs  |-> IF native THEN bufs ELSE EmptyBuffers]

\* BaseMicroserviceBenchmarkSuite.runAndReturnStdOut, given what
\* super().runAndReturnStdOut returned (under) and the suite's buffers: the
\* triple it returns and the buffers it leaves (reset outside native mode).
runAndReturnStdOut(native, under, bufs) ==
    [value |-> [ret_code |-> under.ret_code,
                out |-> StrJoin(<<"\n">>, bufs.timeToFirstResponseOutputs)
                          \o <<"\n">> \o bufs.startupOutput
                          \o <<"\n">> \o bufs.peakOutput
                          \o <<"\n">> \o bufs.latencyOutput
                          \o <<"\n">> \o under.out,
                dims |-> under.dims],
     bufs  |-> IF native THEN bufs ELSE EmptyBuffers]

\* Buffer contents and application results runAndReturnStdOut is given.
TtfrOutputLists ==
    { << >>, << <<"ttfr1">> >>, << <<"ttfr1">>, <<"ttfr2">> >>,
      << <<"ttfr1">>, <<"ttfr2">>, <<"ttfr3">> >> }

StartupOutputs == { << >>, <<"startup">>, <<"startup", "\n", "startup2">> }

PeakOutputs == { << >>, <<"peak">> }

LatencyOutputs == { << >>, <<"latency">> }

ApplicationOutputs == { << >>, <<"app">>, <<"app", "\n">> }

DimensionMaps == { EmptyMap, ("host-vm" :> "native-image") }

\* The calls of runAndReturnStdOut that InitFn enumerates.
RunAndReturnStdOutCalls ==
    { [fn |-> "runAndReturnStdOut", native |-> n,
       under |-> [ret_code |-> c, out |-> a, dims |-> d],
       bufs |-> Buffers(t, s, p, l)] :
        n \in BOOLEAN, c \in ExitCodes, a \in ApplicationOutputs,
        d \in DimensionMaps, t \in TtfrOutputLists, s \in StartupOutputs,
        p \in PeakOutputs, l \in LatencyOutputs }

\* runAndReturnStdOut returns.
ApplyRunAndReturnStdOut ==
    /\ call.fn = "runAndReturnStdOut" /\ ~result.done
    /\ LET r == runAndReturnStdOut(call.native, call.under, call.bufs)
       IN  result' = [done |-> TRUE, value |-> r.value, bufs |-> r.bufs]
    /\ UNCHANGED <<call, probe, configVars, hookVars, outVars, envVars, flowVars, threadVars, procVars,
                   wrkVars, histVars>>

\* ------------------------------------------------------------------------
\* waitForPort and terminateApplication
\* ------------------------------------------------------------------------

\* Largest timeout (in seconds) of the waitForPort calls InitFn enumerates.
MaxTimeout == 2

\* Ports: the one waitForPort is asked about and another one.
Ports == {8080, 9090}

\* waitForPort's None.
NoProc == [pid |-> 0]

\* One inet socket of a process as psutil reports it: the port of its local
\* address and whether it is a listening socket.
Conn(port, listening) == [port |-> port, listening |-> listening]

\* One process of psutil.process_iter(): its inet sockets, and whether
\* proc.connections() raises for it (access denied, process gone).
ProcEntry(pid, conns, raises) == [pid |-> pid, conns |-> conns, raises |-> raises]

\* The process tables one check may see, in the order of process_iter():
\* a process listening on 8080 (pid 11), one holding a socket on local port
\* 8080 that does not listen (pid 12), one listening on 9090 (pid 13) and one
\* listening on 8080 whose sockets cannot be read (pid 14).
ProcTables ==
    LET listener == ProcEntry(11, {Conn(8080, TRUE)}, FALSE)
        bound    == ProcEntry(12, {Conn(8080, FALSE)}, FALSE)
        other    == ProcEntry(13, {Conn(9090, TRUE)}, FALSE)
        hidden   == ProcEntry(14, {Conn(8080, TRUE)}, TRUE)
    IN  { << >>, <<other>>, <<listener>>, <<other, listener>>,
          <<bound, listener>>, <<bound>>, <<hidden>>, <<hidden, listener>> }

\* One pass of waitForPort over a process table: the index of the first
\* process with a socket whose laddr.port is the port, 0 when there is none.
\* A process whose connections() raises is passed over.
FirstOnPort(table, port) ==
    LET hits == { i \in 1..Len(table) :
                    /\ ~table[i].raises
                    /\ \E c \in table[i].conns : c.port = port }
    IN  IF hits = {} THEN 0
        ELSE CHOOSE i \in hits : \A j \in hits : i <= j

\* The loop of waitForPort from check number k on, tables[k] being the
\* process table at check k, over `last` checks in all: the process returned,
\* the number of checks made and of one-second sleeps taken.
RECURSIVE WaitForPortFrom(_, _, _, _)
WaitForPortFrom(tables, port, last, k) ==
    IF k > last
    THEN [aborted |-> FALSE, proc |-> NoProc, checks |-> k - 1, sleeps |-> k - 1]
    ELSE LET i == FirstOnPort(tables[k], port)
         IN  IF i # 0
             THEN [aborted |-> FALSE, proc |-> [pid |-> tables[k][i].pid],
                   checks |-> k, sleeps |-> k - 1]
             ELSE WaitForPortFrom(tables, port, last, k + 1)

\* Mutant of waitForPort: range(timeout), one check fewer.
waitForPortRangeTimeout(tables, port, timeout, psutil) ==
    IF ~psutil
    THEN [aborted |-> TRUE, proc |-> NoProc, checks |-> 0, sleeps |-> 0]
    ELSE WaitForPortFrom(tables, port, timeout, 1)

\* BaseMicroserviceBenchmarkSuite.waitForPort(port, timeout); psutil tells
\* whether the module psutil can be imported (mx.abort when it cannot).
waitForPort(tables, port, timeout, psutil) ==
    IF ~psutil
    THEN [aborted |-> TRUE, proc |-> NoProc, checks |-> 0, sleeps |-> 0]
    ELSE WaitForPortFrom(tables, port, timeout + 1, 1)

\* The calls of waitForPort that InitFn enumerates: a process table for each
\* of the timeout + 1 checks the call could make.
WaitForPortCalls ==
    UNION { { [fn |-> "waitForPort", port |-> p, timeout |-> t, psutil |-> u,
               tables |-> tb] :
                p \in Ports, u \in BOOLEAN, tb \in [1..(t + 1) -> ProcTables] } :
            t \in 0..MaxTimeout }

\* waitForPort returns (or aborts).
ApplyWaitForPort ==
    /\ call.fn = "waitForPort" /\ ~result.done
    /\ LET r == waitForPort(call.tables, call.port, call.timeout, call.psutil)
       IN  result' = [done |-> TRUE, aborted |-> r.aborted, proc |-> r.proc,
                      checks |-> r.checks, sleeps |-> r.sleeps]
    /\ UNCHANGED <<call, probe, configVars, hookVars, outVars, envVars, flowVars, threadVars, procVars,
                   wrkVars, histVars>>

\* Mutant of terminateApplication: the lookup waits a second and checks again.
terminateApplicationWaiting(tables, port, psutil) ==
    LET r == waitForPort(tables, port, 1, psutil)
    IN  IF r.aborted
        THEN [aborted |-> TRUE, ret |-> FALSE, signals |-> {}, checks |-> r.checks]
        ELSE IF r.proc # NoProc
        THEN [aborted |-> FALSE, ret |-> TRUE,
              signals |-> {[pid |-> r.proc.pid, signal |-> "SIGTERM"]},
              checks |-> r.checks]
        ELSE [aborted |-> FALSE, ret |-> FALSE, signals |-> {}, checks |-> r.checks]

\* BaseMicroserviceBenchmarkSuite.terminateApplication(port): what it returns,
\* the signals it sends and the checks of the process table it makes.
terminateApplication(tables, port, psutil) ==
    LET r == waitForPort(tables, port, 0, psutil)
    IN  IF r.aborted
        THEN [aborted |-> TRUE, ret |-> FALSE, signals |-> {}, checks |-> r.checks]
        ELSE IF r.proc # NoProc
        THEN [aborted |-> FALSE, ret |-> TRUE,
              signals |-> {[pid |-> r.proc.pid, signal |-> "SIGTERM"]},
              checks |-> r.checks]
        ELSE [aborted |-> FALSE, ret |-> FALSE, signals |-> {}, checks |-> r.checks]

\* The calls of terminateApplication that InitFn enumerates: the process
\* table at the time of the call and the one a second later.
TerminateApplicationCalls ==
    { [fn |-> "terminateApplication", port |-> p, psutil |-> u, tables |-> tb] :
        p \in Ports, u \in BOOLEAN, tb \in [1..2 -> ProcTables] }

\* terminateApplication returns (or aborts).
ApplyTerminateApplication ==
    /\ call.fn = "terminateApplication" /\ ~result.done
    /\ LET r == terminateApplication(call.tables, call.port, call.psutil)
       IN  result' = [done |-> TRUE, aborted |-> r.aborted, ret |-> r.ret,
                      signals |-> r.signals, checks |-> r.checks]
    /\ UNCHANGED <<call, probe, configVars, hookVars, outVars, envVars, flowVars, threadVars, procVars,
                   wrkVars, histVars>>

\* ------------------------------------------------------------------------
\* stages(args)
\* ------------------------------------------------------------------------
\* An argument is a text: a sequence of words and separators, the option
\* prefix being one token.

\* Largest number of arguments of the stages calls InitFn enumerates.
MaxArgs == 2

\* The prefix stages() looks for.
StagesPrefix == "-Dnative-image.benchmark.stages="

\* text.split(sep) for a separator of one token.
RECURSIVE Split(_, _)
Split(text, sep) ==
    LET at == { i \in 1..Len(text) : text[i] = sep }
    IN  IF at = {} THEN <<text>>
        ELSE LET i == CHOOSE x \in at : \A y \in at : x <= y
             IN  <<SubSeq(text, 1, i - 1)>>
                   \o Split(SubSeq(text, i + 1, Len(text)), sep)

\* arg.startswith(prefix)
StartsWith(arg, prefix) == Len(arg) >= 1 /\ arg[1] = prefix

\* x in ret, for a list ret
InList(x, ret) == \E i \in 1..Len(ret) : ret[i] = x

\* parse_prefixed_args(prefix, args), ret being the list built so far.
RECURSIVE ParseFrom(_, _, _)
ParseFrom(prefix, args, ret) ==
    IF Len(args) = 0 THEN ret
    ELSE LET arg    == args[1]
             parsed == Split(Split(arg, " ")[1], prefix)[2]
         IN  IF StartsWith(arg, prefix) /\ ~InList(parsed, ret)
             THEN ParseFrom(prefix, Tail(args), Append(ret, parsed))
             ELSE ParseFrom(prefix, Tail(args), ret)

parse_prefixed_args(prefix, args) == ParseFrom(prefix, args, << >>)

\* parse_prefixed_arg(prefix, args, errorMsg): mx.abort(errorMsg), None or
\* the one value parsed.
parse_prefixed_arg(prefix, args) ==
    LET ret == parse_prefixed_args(prefix, args)
    IN  IF Len(ret) > 1 THEN [aborted |-> TRUE, none |-> TRUE, value |-> << >>]
        ELSE IF Len(ret) < 1
        THEN [aborted |-> FALSE, none |-> TRUE, value |-> << >>]
        ELSE [aborted |-> FALSE, none |-> FALSE, value |-> ret[1]]

\* Mutant of default_stages: the build stages ahead of the runs they feed.
default_stagesBuildsFirst ==
    <<StageWords("instrument-image"), StageWords("image"), StageWords("agent"),
      StageWords("instrument-run"), StageWords("run")>>

\* NativeImageBenchmarkMixin.default_stages
default_stages ==
    <<StageWords("agent"), StageWords("instrument-image"),
      StageWords("instrument-run"), StageWords("image"), StageWords("run")>>

\* NativeImageBenchmarkMixin.stages(args): the list of stage names, or the
\* abort of parse_prefixed_arg. An empty value is falsy, as None is.
stages(args) ==
    LET parsed_arg == parse_prefixed_arg(StagesPrefix, args)
    IN  IF parsed_arg.aborted THEN [aborted |-> TRUE, value |-> << >>]
        ELSE IF ~parsed_arg.none /\ parsed_arg.value # << >>
        THEN [aborted |-> FALSE, value |-> Split(parsed_arg.value, ",")]
        ELSE [aborted |-> FALSE, value |-> default_stages]

\* Arguments stages() may be handed: another option, and the stages option
\* with one stage, with two, with three in an order of their own, with an
\* empty value, with a space after a comma, and with the prefix repeated.
StageArgs ==
    { <<"--jvm=native-image">>,
      <<StagesPrefix, "run">>,
      <<StagesPrefix, "image", ",", "run">>,
      <<StagesPrefix, "run", ",", "instrument", "-", "image", ",", "agent">>,
      <<StagesPrefix>>,
      <<StagesPrefix, "agent", ",", " ", "run">>,
      <<StagesPrefix, "run", StagesPrefix, "image">> }

\* The calls of stages that InitFn enumerates.
StagesCalls ==
    { [fn |-> "stages", args |-> a] :
        a \in UNION { [1..n -> StageArgs] : n \in 0..MaxArgs } }

\* stages returns (or aborts).
ApplyStages ==
    /\ call.fn = "stages" /\ ~result.done
    /\ LET r == stages(call.args)
       IN  result' = [done |-> TRUE, aborted |-> r.aborted, value |-> r.value]
    /\ UNCHANGED <<call, probe, configVars, hookVars, outVars, envVars, flowVars, threadVars, procVars,
                   wrkVars, histVars>>

\* The functions evaluated on their own, each on every one of its calls.
FnCalls ==
    RunAndReturnStdOutCalls \cup WaitForPortCalls
      \cup TerminateApplicationCalls \cup StagesCalls

InitFn ==
    /\ call \in FnCalls /\ result = NoResult /\ probe = NoProbe
    /\ InitIdle

NextFn ==
    \/ ApplyRunAndReturnStdOut
    \/ ApplyWaitForPort
    \/ ApplyTerminateApplication
    \/ ApplyStages

SpecFn == InitFn /\ [][NextFn]_vars

\* ------------------------------------------------------------------------
\* measureTimeToFirstResponse, step by step
\* ------------------------------------------------------------------------
\* Time is counted in whole seconds since measurementStartTime; one pass of
\* the loop (the sleep and the request) takes between one second and the
\* timeout of the request.

\* The budget of the loop, in seconds.
TimeBudget == 120

\* The timeout urlopen is given, in seconds.
RequestTimeout == 10

\* How long one request may take.
Durations == 1..RequestTimeout

\* How one request may end: response code 200, another response code, an
\* IOError (connection refused, timeout, HTTP error status), or an exception
\* that is not an IOError (a malformed response).
Outcomes == {"200", "non200", "IOError", "otherError"}

\* Mutant of KeepsSending: the bound of the loop included.
KeepsSendingInclusive(elapsed) == elapsed <= TimeBudget

\* while time.time() - measurementStartTime < 120
KeepsSending(elapsed) == elapsed < TimeBudget

\* The calls of measureTimeToFirstResponse that InitTtfr enumerates: the
\* outputs earlier trials left in bmSuite.timeToFirstResponseOutputs.
TtfrCalls ==
    { [fn |-> "measureTimeToFirstResponse", outputs |-> t] :
        t \in TtfrOutputLists }

InitTtfr ==
    /\ call \in TtfrCalls /\ result = NoResult
    /\ probe = [pc |-> "loop", now |-> 0, sentAt |-> -1,
                last |-> "none", okAt |-> -1, outputs |-> call.outputs]
    /\ InitIdle

\* One pass of the loop: the request is sent and ends after d seconds; on
\* code 200 the output is appended and the function returns, another code
\* and an IOError lead to the next pass, any other exception leaves the
\* function.
TtfrRequest ==
    /\ probe.pc = "loop"
    /\ KeepsSending(probe.now)
    /\ \E d \in Durations, o \in Outcomes :
        probe' = [probe EXCEPT
                    !.now = @ + d,
                    !.sentAt = probe.now,
                    !.last = o,
                    !.okAt = IF o = "200" THEN probe.now + d ELSE @,
                    !.outputs = IF o = "200"
                                THEN Append(@, <<"First response received">>)
                                ELSE @,
                    !.pc = CASE o = "200" -> "returned"
                             [] o = "otherError" -> "raised"
                             [] OTHER -> "loop"]
    /\ UNCHANGED <<call, result, configVars, hookVars, outVars, envVars, flowVars, threadVars,
                   procVars, wrkVars, histVars>>

\* The loop ends with the budget used up: mx.abort.
TtfrAbort ==
    /\ probe.pc = "loop"
    /\ ~KeepsSending(probe.now)
    /\ probe' = [probe EXCEPT !.pc = "aborted"]
    /\ UNCHANGED <<call, result, configVars, hookVars, outVars, envVars, flowVars, threadVars,
                   procVars, wrkVars, histVars>>

NextTtfr == TtfrRequest \/ TtfrAbort

SpecTtfr == InitTtfr /\ [][NextTtfr]_vars

\* ------------------------------------------------------------------------
\* Vocabulary of the properties
\* ------------------------------------------------------------------------

\* run_stage was called for stage 'run'.
InRunStage == inNativeMode /\ stage = "run"

\* run_stage was called for a stage that measures only peak performance.
InAgentStage == inNativeMode /\ stage \in {"agent", "instrument-run"}

\* The positions of the flow between startDaemonThread and the end of join().
InFlight == {"service", "wait", "join"}

\* The positions of the flow outside every with EmptyEnv block.
OutsidePhase == {"entry", "build", "enter", "after", "returned", "aborted"}

\* s is an initial segment of q.
IsPrefix(s, q) == Len(s) <= Len(q) /\ \A i \in 1..Len(s) : s[i] = q[i]

\* n time-to-first-response phases.
TtfrTimes(n) == [i \in 1..n |-> "ttfr"]

\* Number of occurrences of block b in the history of started phases.
TimesStarted(b) == Cardinality({ i \in 1..Len(started) : started[i] = b })

\* No fixed requests-per-second for any latency script.
NoFixedRate == \A i \in 1..Len(latencyRps) : latencyRps[i] = 0

AliveThreads == { t \in threads : Alive(t) }

RunningProcs == { p \in procs : Running(p) }

\* ------------------------------------------------------------------------
\* C1
\* ------------------------------------------------------------------------

\* The order the claim states: latency always once at the end.
C1_StatedOrder ==
    TtfrTimes(NumMeasureTimeToFirstResponse) \o <<"startup", "peak">>
      \o (IF NoFixedRate THEN <<"calib">> ELSE << >>) \o <<"latency">>

\* The order with the latency blocks only when latency is measured.
C1_Order ==
    TtfrTimes(NumMeasureTimeToFirstResponse) \o <<"startup", "peak">>
      \o (IF measureLatency /\ NoFixedRate THEN <<"calib">> ELSE << >>)
      \o (IF measureLatency THEN <<"latency">> ELSE << >>)

\* C1 as stated: in run_stage for stage 'run' the phases started are, in this
\* order, time-to-first-response 10 times, startup, peak with warmup,
\* latency-calibration if needed, latency once: at every moment a prefix of
\* that order, and the whole of it when run_stage returns.
C1_Original ==
    InRunStage =>
        /\ IsPrefix(started, C1_StatedOrder)
        /\ (pc = "returned" => started = C1_StatedOrder)

\* C1 amended: the same, except that latency-calibration and latency are
\* started only when latency is measured (no --skip-latency-measurements);
\* the peak task of stage 'run' is the one with warmup.
C1_PhaseOrder ==
    InRunStage =>
        /\ IsPrefix(started, C1_Order)
        /\ (pc = "returned" => started = C1_Order)
        /\ \A t \in threads : t.target = "peak" => t.warmup

\* C1 witness: run_stage for stage 'run' has returned after all five kinds of
\* phase, calibration included.
C1_Witness ==
    /\ InRunStage /\ pc = "returned"
    /\ measureLatency /\ NoFixedRate
    /\ Len(started) = NumMeasureTimeToFirstResponse + 4

\* ------------------------------------------------------------------------
\* C2
\* ------------------------------------------------------------------------

\* C2 as stated: in every measuring stage (agent, instrument-run, run),
\* run_stage does not return normally when a phase's service invocation ended
\* with an exit code other than 143.
C2_Original ==
    (InRunStage \/ InAgentStage) /\ pc = "returned" =>
        \A i \in 1..Len(retcodes) : retcodes[i] = GracefulExitCode

\* C2 amended: in stage 'run', run_stage does not return normally when a
\* phase's service invocation ended with an exit code other than 143, and it
\* goes on to a next phase only after the code 143; in the stages agent and
\* instrument-run it validates nothing and returns the exit code of the
\* service invocation as it is.
C2_RunStageValidates ==
    /\ InRunStage /\ pc \in {"returned", "enter", "start"} =>
          \A i \in 1..Len(retcodes) : retcodes[i] = GracefulExitCode
    /\ InRunStage /\ pc = "returned" => Len(retcodes) = Len(started)
    /\ InAgentStage /\ pc = "returned" =>
          Len(retcodes) = 1 /\ returnCode = retcodes[1]

\* C2 witness: in stage 'run' a service invocation returned a code other than
\* 143 and run_stage aborted on it.
C2_Witness ==
    /\ InRunStage /\ pc = "aborted" /\ abortCause = "validate"
    /\ retcodes # << >> /\ retcodes[Len(retcodes)] # GracefulExitCode

\* ------------------------------------------------------------------------
\* C3
\* ------------------------------------------------------------------------

\* C3 as stated: whenever the flow is outside the span from startDaemonThread
\* to join(), having left the phase by continuation or by abort, no
\* background thread is running.
C3_Original == pc \notin InFlight => AliveThreads = {}

\* C3 amended: when the service invocation returns an exit code, whatever the
\* code, the flow joins the thread before anything else, so that no thread is
\* left when it continues, returns, or aborts on the validation of the code;
\* only when the service invocation itself raises is join() skipped.
C3_JoinDiscipline ==
    /\ pc \notin InFlight /\ abortCause # "service" => threads = {}
    /\ pc = "exit" /\ ~pendingExc => threads = {}

\* C3 witness: a service invocation ended with a non-success code, the thread
\* was joined, and the flow aborted with no thread left.
C3_Witness ==
    /\ pc = "aborted" /\ abortCause = "validate" /\ nThreads > 0
    /\ threads = {}

\* ------------------------------------------------------------------------
\* C4
\* ------------------------------------------------------------------------

\* C4: at most one background thread is alive at any time; one thread is
\* created per phase; a phase's thread is started only when no earlier thread
\* is left unjoined.
C4_OneThread ==
    /\ Cardinality(AliveThreads) <= 1
    /\ nThreads = nPhases - (IF pc = "start" THEN 1 ELSE 0)
    /\ pc \in {"enter", "start"} => threads = {}

\* C4 witness: a second phase's thread is alive.
C4_Witness == \E t \in AliveThreads : t.id >= 2

\* ------------------------------------------------------------------------
\* C5
\* ------------------------------------------------------------------------

\* C5: at most one launched process is running at any time; a process runs
\* only while the flow is blocked in its invocation, so that a service is
\* launched only after the process of the previous phase has exited.
C5_OneService ==
    /\ Cardinality(RunningProcs) <= 1
    /\ pc \notin {"wait", "build"} => RunningProcs = {}

\* C5 witness: the service process of a second phase is running.
C5_Witness == \E p \in RunningProcs : p.id >= 2 /\ p.kind = "service"

\* ------------------------------------------------------------------------
\* C6
\* ------------------------------------------------------------------------

\* The background tasks that run a load-generator workload.
WorkloadTargets == {"startup", "peak", "calib", "latency"}

\* C6: in the startup, peak, latency-calibration and latency tasks the
\* workload starts only after waitForPort found a process, terminateApplication
\* is called only after the workload returned, and the task completes normally
\* only after the termination signal was sent.
C6_TaskSequence ==
    \A t \in threads :
        t.target \in WorkloadTargets =>
            /\ t.pc = "workload" \/ t.workloadReturned => t.portFound
            /\ t.pc = "terminate" \/ t.signalSent => t.workloadReturned
            /\ t.pc = "done" => t.signalSent

\* C6 witness: a latency task has completed normally.
C6_Witness ==
    \E t \in threads :
        t.target = "latency" /\ t.pc = "done" /\ t.portFound /\ t.signalSent

\* ------------------------------------------------------------------------
\* C7
\* ------------------------------------------------------------------------

\* C7: outside every measurement phase, so after each exit from one (normal
\* completion, abort, an exception of the service invocation), os.environ is
\* the environment in place before the phase started.
C7_EnvRestored == pc \in OutsidePhase => os_environ = priorEnv

\* C7 witness: a phase was left by an exception of the service invocation
\* and the environment is the prior one, which differs from the phase's.
C7_Witness ==
    /\ pc = "aborted" /\ abortCause = "service" /\ nPhases > 0
    /\ os_environ = priorEnv
    /\ priorEnv # EmptyEnvEnter(suiteEnv0, priorEnv).environ

\* ------------------------------------------------------------------------
\* C8
\* ------------------------------------------------------------------------

\* The names of the proxy-bypass variables.
ProxyNames == {"no_proxy", "NO_PROXY"}

\* The environment the claim states for a phase: the prior values of the
\* proxy-bypass variables that were set, and get_env()'s entry for every
\* other name it holds.
C8_PhaseEnv ==
    LET kept == ProxyNames \cap DOMAIN priorEnv
    IN  [x \in DOMAIN suiteEnv0 \cup kept |->
            IF x \in kept THEN priorEnv[x] ELSE suiteEnv0[x]]

\* C8: while a measurement phase runs, os.environ holds exactly get_env()'s
\* entries and the prior values of no_proxy and NO_PROXY where those were set,
\* and no other variable of the prior environment; the mapping get_env()
\* returned is not modified.
C8_ScopedEnv ==
    /\ pc \notin OutsidePhase => os_environ = C8_PhaseEnv
    /\ suiteEnv = suiteEnv0

\* C8 witness: a phase is running with a prior no_proxy kept, a prior PATH
\* hidden and a get_env() entry visible.
C8_Witness ==
    /\ pc = "wait"
    /\ "no_proxy" \in DOMAIN priorEnv /\ "PATH" \in DOMAIN priorEnv
    /\ "JAVA_HOME" \in DOMAIN suiteEnv0
    /\ DOMAIN os_environ = {"JAVA_HOME", "no_proxy"}
    /\ os_environ["no_proxy"] = priorEnv["no_proxy"]

\* ------------------------------------------------------------------------
\* C9
\* ------------------------------------------------------------------------

\* C9: the latency-calibration phase is started only when latency is measured
\* and no latency script has a fixed requests-per-second; it is started at
\* most once, and the latency phase starts only after it has completed (its
\* task ended and joined, its service process exited).
C9_Calibration ==
    /\ TimesStarted("calib") > 0 => measureLatency /\ NoFixedRate
    /\ TimesStarted("calib") <= 1
    /\ TimesStarted("latency") > 0 =>
          /\ \A t \in threads : t.target # "calib"
          /\ \A p \in procs : p.phase # "calib"
          /\ \A i, j \in 1..Len(started) :
                started[i] = "calib" /\ started[j] = "latency" => i < j

\* C9 witness: the latency phase has started after a calibration phase.
C9_Witness == TimesStarted("calib") = 1 /\ TimesStarted("latency") = 1

\* ------------------------------------------------------------------------
\* C10
\* ------------------------------------------------------------------------

\* Python's round(n / d) for n >= 0, d > 0: to the nearest integer, a tie to
\* the even one.
RoundHalfEven(n, d) ==
    LET q == n \div d
        r == n % d
    IN  IF 2 * r < d THEN q
        ELSE IF 2 * r > d THEN q + 1
        ELSE IF q % 2 = 0 THEN q ELSE q + 1

\* C10 as stated: for a latency script without fixed requests-per-second, the
\* rate handed to the rate-controlled load generator is
\* round(0.75 * measuredMaxThroughput) of the throughput the calibration
\* measured for that script.
C10_Original ==
    \A i \in 1..Len(latencyRates) :
        latencyRps[i] = 0 =>
            /\ i \in 1..Len(measuredMax)
            /\ latencyRates[i] = RoundHalfEven(75 * measuredMax[i], 10000)

\* C10 amended: that rate is int(0.75 * measuredMaxThroughput), the product
\* truncated to a whole number (750 for a measured 1000 op/s), of the
\* throughput the calibration measured for that same script.
C10_TruncatedRate ==
    \A i \in 1..Len(latencyRates) :
        latencyRps[i] = 0 =>
            /\ i \in 1..Len(measuredMax)
            /\ latencyRates[i] * 10000 <= 75 * measuredMax[i]
            /\ 75 * measuredMax[i] < (latencyRates[i] + 1) * 10000
            /\ (measuredMax[i] = 100000 => latencyRates[i] = 750)

\* C10 witness: a script calibrated at 1000 op/s was measured at rate 750 and
\* another one calibrated at 1001 op/s as well.
C10_Witness ==
    /\ Len(latencyRates) = 2 /\ NoFixedRate
    /\ measuredMax = <<100000, 100100>>
    /\ latencyRates = <<750, 750>>

\* ------------------------------------------------------------------------
\* C11
\* ------------------------------------------------------------------------

\* C11: a latency script whose configuration specifies a fixed
\* requests-per-second is measured at exactly that rate, and no calibration
\* (maximum-throughput) measurement is run for it: no calibration phase is
\* started and no throughput is measured or stored for the script.
C11_FixedRate ==
    \A i \in 1..Len(latencyRps) :
        latencyRps[i] # 0 =>
            /\ (i \in 1..Len(latencyRates) => latencyRates[i] = latencyRps[i])
            /\ i \notin DOMAIN measuredMax
            /\ i \notin DOMAIN calibratedThroughput
            /\ TimesStarted("calib") = 0
            /\ \A t \in threads : t.target # "calib"

\* C11 witness: both scripts have the fixed rate 500 and the latency
\* measurement has handed both rates to the load generator.
C11_Witness ==
    /\ latencyRps = <<500, 500>>
    /\ latencyRates = <<500, 500>>
    /\ \E t \in threads : t.target = "latency" /\ t.workloadReturned

\* ------------------------------------------------------------------------
\* C12
\* ------------------------------------------------------------------------

\* The tokens of a text that are not line breaks, in order.
Visible(text) == SelectSeq(text, LAMBDA x : x # "\n")

\* The texts of a list one after the other.
RECURSIVE Flatten(_)
Flatten(texts) ==
    IF Len(texts) = 0 THEN << >> ELSE texts[1] \o Flatten(Tail(texts))

\* C12: runAndReturnStdOut returns a text in which all time-to-first-response
\* outputs come first, in trial order, then the startup output, then the peak
\* output, then the latency output, then the application's own standard
\* output (each part on lines of its own); the return code and the
\* dimensions of the underlying invocation are passed through unchanged.
C12_OutputOrder ==
    (call.fn = "runAndReturnStdOut" /\ result.done) =>
        LET b    == call.bufs
            text == result.value.out
            head == Flatten(b.timeToFirstResponseOutputs)
            n    == Len(b.timeToFirstResponseOutputs)
        IN  /\ result.value.ret_code = call.under.ret_code
            /\ result.value.dims = call.under.dims
            /\ Visible(text) =
                  Visible(head) \o Visible(b.startupOutput)
                    \o Visible(b.peakOutput) \o Visible(b.latencyOutput)
                    \o Visible(call.under.out)
            /\ Len(text) =
                  Len(head) + (IF n > 0 THEN n - 1 ELSE 0) + 4
                    + Len(b.startupOutput) + Len(b.peakOutput)
                    + Len(b.latencyOutput) + Len(call.under.out)
            /\ SubSeq(text, Len(text) - Len(call.under.out) + 1, Len(text))
                  = call.under.out
            /\ (n > 0 => text[1] = b.timeToFirstResponseOutputs[1][1])

\* C12 witness: a call with two time-to-first-response outputs, every other
\* buffer and the application output non-empty, and a non-zero return code.
C12_Witness ==
    /\ call.fn = "runAndReturnStdOut" /\ result.done
    /\ Len(call.bufs.timeToFirstResponseOutputs) = 2
    /\ call.bufs.startupOutput = <<"startup", "\n", "startup2">>
    /\ call.bufs.peakOutput # << >> /\ call.bufs.latencyOutput # << >>
    /\ call.under.out = <<"app">> /\ call.under.ret_code = GracefulExitCode
    /\ result.value.out =
          <<"ttfr1", "\n", "ttfr2", "\n", "startup", "\n", "startup2", "\n",
            "peak", "\n", "latency", "\n", "app">>

\* ------------------------------------------------------------------------
\* C13
\* ------------------------------------------------------------------------

\* The processes of a table that hold a listening socket on the port and
\* whose sockets can be read, by index.
ListenersOn(table, port) ==
    { i \in 1..Len(table) :
        /\ ~table[i].raises
        /\ \E c \in table[i].conns : c.port = port /\ c.listening }

\* The processes of a table that hold any inet socket whose local port is the
\* port, listening or not, and whose sockets can be read, by index.
HoldersOn(table, port) ==
    { i \in 1..Len(table) :
        /\ ~table[i].raises
        /\ \E c \in table[i].conns : c.port = port }

\* The least element of a non-empty set of numbers.
Least(S) == CHOOSE x \in S : \A y \in S : x <= y

\* What waitForPort returned, Found(table, port) being the processes a check
\* counts as found: at most timeout + 1 checks, no sleep before the first;
\* the first process found by the first check that finds one, returned with no
\* further check; None after timeout + 1 checks when none of them finds one.
C13_Returns(Found(_, _)) ==
    LET last  == call.timeout + 1
        finds == { k \in 1..last : Found(call.tables[k], call.port) # {} }
    IN  /\ ~result.aborted
        /\ result.checks <= last
        /\ result.checks >= 1 /\ result.sleeps >= result.checks - 1
        /\ IF finds = {}
           THEN result.proc = NoProc /\ result.checks = last
           ELSE LET k == Least(finds)
                    i == Least(Found(call.tables[k], call.port))
                IN  /\ result.proc = [pid |-> call.tables[k][i].pid]
                    /\ result.checks = k
                    /\ result.sleeps = k - 1

C15_ProbeFailureFatal ==
    \A t \in threads :
        /\ t.probes <= 1 /\ t.terminateCalls <= 1
        /\ (t.probes = 1 /\ ~t.portFound) =>
              /\ t.pc = "aborted"
              /\ ~t.workloadInvoked /\ ~t.warmupRun
              /\ t.terminateCalls = 0
        /\ (t.terminateCalls = 1 /\ ~t.signalSent) => t.pc = "aborted"

\* C15 witness: the task of a load phase has aborted because the service was
\* gone when terminateApplication looked for it, after its workload returned.
C15_Witness ==
    \E t \in threads :
        /\ t.target = "peak" /\ t.pc = "aborted"
        /\ t.workloadReturned /\ t.terminateCalls = 1 /\ ~t.signalSent

\* ------------------------------------------------------------------------
\* C16
\* ------------------------------------------------------------------------

\* The stage vocabulary.
C16_Vocabulary == {"agent", "instrument-image", "instrument-run", "image", "run"}

\* C16 as stated: run_stage called with a stage name outside the vocabulary
\* {agent, instrument-image, instrument-run, image, run} ends in a fatal
\* abort before any process is spawned and before any thread is started: the
\* flow is at its entry or aborted for the unexpected stage, with no process
\* launched, no thread created and no phase entered.
C16_Original ==
    (inNativeMode /\ stage \notin C16_Vocabulary) =>
        /\ pc \in {"entry", "aborted"}
        /\ (pc = "aborted" => abortCause = "stage")
        /\ nProcs = 0 /\ nThreads = 0 /\ nPhases = 0

\* What holds of the code: the abort is reached only by a name that is not
\* 'agent' or 'run' and contains neither 'image' nor 'instrument-run'.
C16_RejectedNames ==
    (/\ inNativeMode
     /\ stage \notin {"agent", "run"}
     /\ ~Contains(<<"image">>, StageWords(stage))
     /\ ~Contains(<<"instrument", "-", "run">>, StageWords(stage))) =>
        /\ pc \in {"entry", "aborted"}
        /\ (pc = "aborted" => abortCause = "stage")
        /\ nProcs = 0 /\ nThreads = 0 /\ nPhases = 0

\* The stage 'bogus' has been rejected.
C16_Witness ==
    /\ inNativeMode /\ stage = "bogus"
    /\ pc = "aborted" /\ abortCause = "stage" /\ nProcs = 0 /\ nThreads = 0

\* ------------------------------------------------------------------------
\* C17
\* ------------------------------------------------------------------------

\* C17: for the stages 'agent' and 'instrument-run', run_stage runs exactly
\* one measurement phase, peak performance without warmup: its task makes no
\* warmup run of the load generator, and no time-to-first-response, startup,
\* calibration or latency phase is run.
C17_PeakOnly ==
    InAgentStage =>
        /\ IsPrefix(started, <<"peak">>)
        /\ nPhases <= 1 /\ nThreads <= 1 /\ nProcs <= 1
        /\ \A t \in threads :
              t.target = "peak" /\ ~t.warmup /\ ~t.warmupRun
        /\ calibratedThroughput = << >> /\ latencyRates = << >>
        /\ (pc = "returned" => started = <<"peak">> /\ nPhases = 1)

\* C17 witness: in stage 'instrument-run' the peak task has run its workload
\* and ended, and the flow is about to join it.
C17_Witness ==
    /\ inNativeMode /\ stage = "instrument-run" /\ pc = "join"
    /\ started = <<"peak">>
    /\ \E t \in threads :
          t.pc = "done" /\ t.workloadReturned /\ ~t.warmupRun

\* ------------------------------------------------------------------------
\* C18
\* ------------------------------------------------------------------------

\* C18: for the stages 'image' and 'instrument-image', run_stage starts no
\* thread and no measurement phase; it runs the given build command exactly
\* once and synchronously (the command has exited when run_stage returns)
\* and returns its exit code verbatim, without validating it against 143.
C18_BuildOnly ==
    (inNativeMode /\ stage \in {"image", "instrument-image"}) =>
        /\ nThreads = 0 /\ threads = {} /\ nPhases = 0 /\ started = << >>
        /\ nProcs <= 1 /\ (pc # "entry" => nProcs = 1)
        /\ \A p \in procs : p.kind = "build"
        /\ abortCause \notin {"validate", "stage"}
        /\ os_environ = priorEnv
        /\ (pc = "returned" =>
              /\ RunningProcs = {}
              /\ retcodes = <<returnCode>>)

\* C18 witness: in stage 'instrument-image' the build command ended with
\* exit code 1 and run_stage returned 1.
C18_Witness ==
    /\ inNativeMode /\ stage = "instrument-image"
    /\ pc = "returned" /\ returnCode = 1 /\ retcodes = <<1>>

\* ------------------------------------------------------------------------
\* C19
\* ------------------------------------------------------------------------

\* The five stages in the order the claim gives.
C19_DefaultOrder ==
    << <<"agent">>, <<"instrument", "-", "image">>, <<"instrument", "-", "run">>,
       <<"image">>, <<"run">> >>

\* The arguments of the call that are the stages option, by index.
C19_Options == { i \in 1..Len(call.args) : call.args[i][1] = StagesPrefix }

\* The longest initial segment of a text with no token of the set stops.
RECURSIVE UpTo(_, _)
UpTo(text, stops) ==
    IF Len(text) = 0 \/ text[1] \in stops THEN << >>
    ELSE <<text[1]>> \o UpTo(Tail(text), stops)

\* names are the comma-separated items of the text value, in its order.
ItemsOf(names, value) ==
    /\ StrJoin(<<",">>, names) = value
    /\ \A i \in 1..Len(names) : ~InList(",", names[i])

\* C19 as stated: stages(args) returns the stages of the single
\* -Dnative-image.benchmark.stages= option in the order given (the
\* comma-separated items of what follows the prefix), and returns
\* [agent, instrument-image, instrument-run, image, run] in exactly that
\* order when the option is absent.
C19_Original ==
    (call.fn = "stages" /\ result.done) =>
        /\ C19_Options = {} =>
              ~result.aborted /\ result.value = C19_DefaultOrder
        /\ \A i \in C19_Options :
              C19_Options = {i} =>
                  /\ ~result.aborted
                  /\ ItemsOf(result.value, Tail(call.args[i]))

\* C19 amended: the value of the option is what follows the prefix up to the
\* first space or repetition of the prefix; stages(args) returns the
\* comma-separated items of the single option's value in the order given
\* when that value is not empty, and the five default stages in their order
\* when the option is absent or its value is empty.
C19_StagesOption ==
    (call.fn = "stages" /\ result.done) =>
        /\ C19_Options = {} =>
              ~result.aborted /\ result.value = C19_DefaultOrder
        /\ \A i \in C19_Options :
              C19_Options = {i} =>
                  LET value == UpTo(Tail(call.args[i]), {" ", StagesPrefix})
                  IN  /\ ~result.aborted
                      /\ IF value = << >>
                         THEN result.value = C19_DefaultOrder
                         ELSE ItemsOf(result.value, value)

\* C19 witness: the option lists run, instrument-image, agent after another
\* argument, and stages returned them in that order.
C19_Witness ==
    /\ call.fn = "stages" /\ result.done /\ ~result.aborted
    /\ Len(call.args) = 2 /\ C19_Options = {2}
    /\ result.value = << <<"run">>, <<"instrument", "-", "image">>, <<"agent">> >>

\* ------------------------------------------------------------------------
\* C20
\* ------------------------------------------------------------------------

\* The call has recorded exactly one time-to-first-response output, behind
\* the outputs of the earlier trials.
C20_OneOutput ==
    /\ Len(probe.outputs) = Len(call.outputs) + 1
    /\ SubSeq(probe.outputs, 1, Len(call.outputs)) = call.outputs

\* What the claim and its amendment share: requests are sent only while less
\* than 120 seconds have elapsed; a non-200 response or an I/O error is
\* followed by a next pass of the loop (or by the abort once the budget is
\* used up), with nothing recorded; the first 200 response records exactly
\* one output and the function returns without abort; the abort comes only
\* with the budget used up and records nothing.
C20_Common ==
    /\ probe.sentAt < TimeBudget
    /\ probe.last \in {"non200", "IOError"} => probe.pc \in {"loop", "aborted"}
    /\ probe.last = "200" <=> probe.pc = "returned"
    /\ probe.pc = "returned" => C20_OneOutput /\ probe.okAt = probe.now
    /\ probe.pc # "returned" => probe.outputs = call.outputs /\ probe.okAt = -1
    /\ probe.pc = "aborted" => probe.now >= TimeBudget

C20_AbortReached ==
    /\ call.fn = "measureTimeToFirstResponse" /\ probe.pc = "aborted"
    /\ probe.last = "IOError" /\ probe.outputs = call.outputs

\* ------------------------------------------------------------------------
\* Python floats
\* ------------------------------------------------------------------------
\* A natural number of any size is a sequence of limbs, least significant
\* first, each in 0 .. LimbBase - 1, with no zero limb at its end (zero is
\* the empty sequence).

\* Bits of one limb.
LimbBits == 15

\* 2^LimbBits
LimbBase == 32768

\* Bits of the significand of an IEEE 754 double, the format of a float.
FloatPrecision == 53

\* 2^k for a small k.
RECURSIVE Pow2(_)
Pow2(k) == IF k = 0 THEN 1 ELSE 2 * Pow2(k - 1)

\* n without the zero limbs at its end.
RECURSIVE BigNorm(_)
BigNorm(n) ==
    IF Len(n) > 0 /\ n[Len(n)] = 0 THEN BigNorm(SubSeq(n, 1, Len(n) - 1)) ELSE n

\* The number of a small natural x.
RECURSIVE BigOfInt(_)
BigOfInt(x) ==
    IF x = 0 THEN << >> ELSE <<x % LimbBase>> \o BigOfInt(x \div LimbBase)

\* The small natural of a number (that fits).
RECURSIVE IntOfBig(_)
IntOfBig(n) == IF Len(n) = 0 THEN 0 ELSE n[1] + LimbBase * IntOfBig(Tail(n))

\* Limb i of n, counted from 1, zero beyond its end.
Limb(n, i) == IF i >= 1 /\ i <= Len(n) THEN n[i] ELSE 0

\* Bit i of n, counted from 0.
Bit(n, i) == (Limb(n, (i \div LimbBits) + 1) \div Pow2(i % LimbBits)) % 2

\* Number of significant bits of a small natural and of a number.
RECURSIVE IntBitLen(_)
IntBitLen(x) == IF x = 0 THEN 0 ELSE 1 + IntBitLen(x \div 2)

BitLen(n) ==
    IF Len(n) = 0 THEN 0 ELSE LimbBits * (Len(n) - 1) + IntBitLen(n[Len(n)])

\* a + b + c for a carry c
RECURSIVE BigAddCarry(_, _, _)
BigAddCarry(a, b, c) ==
    IF Len(a) = 0 /\ Len(b) = 0 THEN BigOfInt(c)
    ELSE LET sum == Limb(a, 1) + Limb(b, 1) + c
         IN  <<sum % LimbBase>>
               \o BigAddCarry(IF Len(a) = 0 THEN a ELSE Tail(a),
                              IF Len(b) = 0 THEN b ELSE Tail(b),
                              sum \div LimbBase)

\* a + b
BigAdd(a, b) == BigAddCarry(a, b, 0)

\* a >= b
BigGeq(a, b) ==
    LET k == IF Len(a) > Len(b) THEN Len(a) ELSE Len(b)
        differ == { i \in 1..k : Limb(a, i) # Limb(b, i) }
    IN  IF differ = {} THEN TRUE
        ELSE LET top == CHOOSE i \in differ : \A j \in differ : j <= i
             IN  Limb(a, top) > Limb(b, top)

\* a - b - c for a borrow c, where a >= b + c
RECURSIVE BigSubBorrow(_, _, _)
BigSubBorrow(a, b, c) ==
    IF Len(a) = 0 THEN << >>
    ELSE LET diff == Limb(a, 1) - Limb(b, 1) - c
         IN  <<(diff + LimbBase) % LimbBase>>
               \o BigSubBorrow(Tail(a), IF Len(b) = 0 THEN b ELSE Tail(b),
                               IF diff < 0 THEN 1 ELSE 0)

\* a - b, for a >= b
BigSub(a, b) == BigNorm(BigSubBorrow(a, b, 0))

\* a * x + c for one limb x and a carry c
RECURSIVE BigMulLimb(_, _, _)
BigMulLimb(a, x, c) ==
    IF Len(a) = 0 THEN BigOfInt(c)
    ELSE LET prod == a[1] * x + c
         IN  <<prod % LimbBase>> \o BigMulLimb(Tail(a), x, prod \div LimbBase)

\* a * b
RECURSIVE BigMul(_, _)
BigMul(a, b) ==
    IF Len(b) = 0 \/ Len(a) = 0 THEN << >>
    ELSE BigNorm(BigAdd(BigMulLimb(a, b[1], 0), <<0>> \o BigMul(a, Tail(b))))

\* a div x for one limb x > 0, from the limb at the end, with remainder c
\* carried down.
RECURSIVE BigDivLimb(_, _, _)
BigDivLimb(a, x, c) ==
    IF Len(a) = 0 THEN << >>
    ELSE LET cur == c * LimbBase + a[Len(a)]
         IN  BigDivLimb(SubSeq(a, 1, Len(a) - 1), x, cur % x) \o <<cur \div x>>

\* n * 2^s and n div 2^s.
BigShl(n, s) ==
    IF Len(n) = 0 THEN << >>
    ELSE [i \in 1..(s \div LimbBits) |-> 0]
           \o BigMulLimb(n, Pow2(s % LimbBits), 0)

BigShr(n, s) ==
    IF Len(n) <= s \div LimbBits THEN << >>
    ELSE BigNorm(BigDivLimb(SubSeq(n, (s \div LimbBits) + 1, Len(n)),
                            Pow2(s % LimbBits), 0))

\* The largest digit x in lo .. hi with d * x <= r, by bisection; d * lo <= r.
RECURSIVE QuotientDigit(_, _, _, _)
QuotientDigit(r, d, lo, hi) ==
    IF lo = hi THEN lo
    ELSE LET mid == (lo + hi + 1) \div 2
         IN  IF BigGeq(r, BigMulLimb(d, mid, 0))
             THEN QuotientDigit(r, d, mid, hi)
             ELSE QuotientDigit(r, d, lo, mid - 1)

\* a div d and a mod d for d > 0, by long division over the limbs of a from
\* limb i down, q and r the quotient and the remainder of the limbs above.
RECURSIVE BigDivFrom(_, _, _, _, _)
BigDivFrom(a, d, i, q, r) ==
    IF i < 1 THEN [q |-> BigNorm(q), r |-> r]
    ELSE LET r2    == BigNorm(<<a[i]>> \o r)
             digit == QuotientDigit(r2, d, 0, LimbBase - 1)
         IN  BigDivFrom(a, d, i - 1, <<digit>> \o q,
                        BigSub(r2, BigMulLimb(d, digit, 0)))

BigDivMod(a, d) == BigDivFrom(a, d, Len(a), << >>, << >>)

\* A float (non-negative, finite, normal) is m * 2^e with m a number below
\* 2^FloatPrecision that is odd, or zero with e = 0: each value has one
\* representation.

\* Index of the lowest set bit of n > 0.
LowestBit(n) ==
    CHOOSE i \in 0..(BitLen(n) - 1) :
        Bit(n, i) = 1 /\ \A j \in 0..(i - 1) : Bit(n, j) = 0

\* The float n * 2^e for n below 2^FloatPrecision.
FloatExact(n, e) ==
    IF Len(n) = 0 THEN [m |-> << >>, e |-> 0]
    ELSE [m |-> BigShr(n, LowestBit(n)), e |-> e + LowestBit(n)]

\* The float nearest to n * 2^e, a tie going to the even significand
\* (IEEE 754 round-half-even, the rounding of every float operation).
FloatRound(n, e) ==
    LET s == BitLen(n) - FloatPrecision
    IN  IF s <= 0 THEN FloatExact(n, e)
        ELSE LET q    == BigShr(n, s)
                 half == Bit(n, s - 1) = 1
                 low  == \E i \in 0..(s - 2) : Bit(n, i) = 1
                 up   == half /\ (low \/ Bit(q, 0) = 1)
             IN  FloatExact(IF up THEN BigAdd(q, <<1>>) ELSE q, e + s)

\* float(x) for a small natural x, and for a number.
FloatOfInt(x) == FloatExact(BigOfInt(x), 0)

FloatOfBig(n) == FloatRound(n, 0)

\* a * b
FloatMul(a, b) == FloatRound(BigMul(a.m, b.m), a.e + b.e)

\* a / b for b # 0: the quotient of the significands to at least two bits
\* more than the precision, a last bit standing for a non-zero remainder.
FloatDiv(a, b) ==
    IF Len(a.m) = 0 THEN a
    ELSE LET need == BitLen(b.m) + FloatPrecision + 2 - BitLen(a.m)
             k    == IF need > 0 THEN need ELSE 0
             dm   == BigDivMod(BigShl(a.m, k), b.m)
             q2   == BigAdd(BigAdd(dm.q, dm.q),
                            IF Len(dm.r) = 0 THEN << >> ELSE <<1>>)
         IN  FloatRound(q2, a.e - b.e - k - 1)

\* a + b
FloatAdd(a, b) ==
    LET e == IF a.e < b.e THEN a.e ELSE b.e
    IN  FloatRound(BigAdd(BigShl(a.m, a.e - e), BigShl(b.m, b.e - e)), e)

\* a < b
FloatLess(a, b) ==
    LET e == IF a.e < b.e THEN a.e ELSE b.e
    IN  ~BigGeq(BigShl(a.m, a.e - e), BigShl(b.m, b.e - e))

\* int(a): the whole part of a, a small natural.
FloatTrunc(a) ==
    IF a.e >= 0 THEN IntOfBig(BigShl(a.m, a.e)) ELSE IntOfBig(BigShr(a.m, 0 - a.e))

\* float(text) for the decimal text of num / den (den a power of ten), which
\* is the float nearest to that quotient.
FloatOfDecimal(num, den) == FloatDiv(FloatOfInt(num), FloatOfInt(den))

\* a and b differ by at most b * 2^(-bits): |a - b| * 2^bits <= b.
FloatWithin(a, b, bits) ==
    LET e  == IF a.e < b.e THEN a.e ELSE b.e
        am == BigShl(a.m, a.e - e)
        bm == BigShl(b.m, b.e - e)
        d  == IF BigGeq(am, bm) THEN BigSub(am, bm) ELSE BigSub(bm, am)
    IN  BigGeq(bm, BigShl(d, bits))

\* ------------------------------------------------------------------------
\* Unit tables and convertValue
\* ------------------------------------------------------------------------
\* The product of a sequence of small naturals, as a number.
RECURSIVE BigProduct(_)
BigProduct(factors) ==
    IF Len(factors) = 0 THEN <<1>>
    ELSE BigMul(BigOfInt(Head(factors)), BigProduct(Tail(factors)))

\* An entry of a table is an int or a float; float(entry) is its float.
IntEntry(factors) == [int |-> BigProduct(factors)]

FloatEntry(x) == [float |-> x]

Float(entry) ==
    IF "int" \in DOMAIN entry THEN FloatOfBig(entry.int) ELSE entry.float

\* 1.0 / (the product of the factors)
OneOver(factors) ==
    FloatEntry(FloatDiv(FloatOfInt(1), FloatOfBig(BigProduct(factors))))

timeUnitTable ==
    [u \in {"ns", "us", "ms", "s", "min", "h"} |->
        CASE u = "ns"  -> IntEntry(<<1>>)
          [] u = "us"  -> IntEntry(<<1000>>)
          [] u = "ms"  -> IntEntry(<<1000, 1000>>)
          [] u = "s"   -> IntEntry(<<1000, 1000, 1000>>)
          [] u = "min" -> IntEntry(<<60, 1000, 1000, 1000>>)
          [] u = "h"   -> IntEntry(<<60, 60, 1000, 1000, 1000>>)]

tputUnitTable ==
    [u \in {"op/ns", "op/us", "op/ms", "op/s", "op/min", "op/h"} |->
        CASE u = "op/ns"  -> FloatEntry(FloatOfInt(1))
          [] u = "op/us"  -> OneOver(<<1000>>)
          [] u = "op/ms"  -> OneOver(<<1000, 1000>>)
          [] u = "op/s"   -> OneOver(<<1000, 1000, 1000>>)
          [] u = "op/min" -> OneOver(<<60, 1000, 1000, 1000>>)
          [] u = "op/h"   -> OneOver(<<60, 60, 1000, 1000, 1000>>)]

\* The memory table with the decimal units holding the binary factors.
memUnitTableBinary ==
    [u \in {"B", "kB", "MB", "GB", "KiB", "MiB", "GiB"} |->
        CASE u = "B"            -> IntEntry(<<1>>)
          [] u \in {"kB", "KiB"} -> IntEntry(<<1024>>)
          [] u \in {"MB", "MiB"} -> IntEntry(<<1024, 1024>>)
          [] u \in {"GB", "GiB"} -> IntEntry(<<1024, 1024, 1024>>)]

memUnitTable ==
    [u \in {"B", "kB", "MB", "GB", "KiB", "MiB", "GiB"} |->
        CASE u = "B"   -> IntEntry(<<1>>)
          [] u = "kB"  -> IntEntry(<<1000>>)
          [] u = "MB"  -> IntEntry(<<1000, 1000>>)
          [] u = "GB"  -> IntEntry(<<1000, 1000, 1000>>)
          [] u = "KiB" -> IntEntry(<<1024>>)
          [] u = "MiB" -> IntEntry(<<1024, 1024>>)
          [] u = "GiB" -> IntEntry(<<1024, 1024, 1024>>)]

\* The tables by name.
TableNames == {"time", "tput", "mem"}

UnitTable(name) ==
    CASE name = "time" -> timeUnitTable
      [] name = "tput" -> tputUnitTable
      [] name = "mem"  -> memUnitTable

\* mx.abort("Unexpected unit: " + unit)
UnexpectedUnit(unit) ==
    [aborted |-> TRUE, message |-> <<"Unexpected unit: ", unit>>]

Converted(value) == [aborted |-> FALSE, value |-> value]

\* convertValue that leaves out the division by the factor of toUnit.
convertValueToBase(table, value, fromUnit, toUnit) ==
    IF fromUnit \notin DOMAIN table THEN UnexpectedUnit(fromUnit)
    ELSE IF toUnit \notin DOMAIN table THEN UnexpectedUnit(fromUnit)
    ELSE Converted(FloatMul(value, Float(table[fromUnit])))

\* convertValue(table, value, fromUnit, toUnit); the message for an unknown
\* toUnit names fromUnit, as the code does.
convertValue(table, value, fromUnit, toUnit) ==
    IF fromUnit \notin DOMAIN table THEN UnexpectedUnit(fromUnit)
    ELSE IF toUnit \notin DOMAIN table THEN UnexpectedUnit(fromUnit)
    ELSE LET fromFactor == Float(table[fromUnit])
             toFactor   == Float(table[toUnit])
         IN  Converted(FloatDiv(FloatMul(value, fromFactor), toFactor))

\* The float of the decimal text num / den, for the pairs <<num, den>>.
FloatsOf(decimals) == { FloatOfDecimal(d[1], d[2]) : d \in decimals }

\* The values converted: 0, 1, 7, 1000, 0.1 and 1.5.
ConvertValues ==
    FloatsOf({<<0, 1>>, <<1, 1>>, <<7, 1>>, <<1000, 1>>, <<1, 10>>, <<3, 2>>})

\* The units handed in with a table: its own and one of another table.
UnitsFor(name) ==
    DOMAIN UnitTable(name) \cup {IF name = "mem" THEN "ms" ELSE "MiB"}

ConvertValueCalls ==
    UNION { [fn : {"convertValue"}, table : {name}, value : ConvertValues,
             fromUnit : UnitsFor(name), toUnit : UnitsFor(name)]
            : name \in TableNames }

ApplyConvertValue ==
    /\ call.fn = "convertValue" /\ ~result.done
    /\ result' = [done |-> TRUE,
                  value |-> convertValue(UnitTable(call.table), call.value,
                                         call.fromUnit, call.toUnit)]
    /\ UNCHANGED <<call, probe, configVars, hookVars, outVars, envVars, flowVars, threadVars,
                   procVars, wrkVars, histVars>>

\* ------------------------------------------------------------------------
\* computeAverage
\* ------------------------------------------------------------------------
\* Most results averaged in one call.
MaxResults == 3

Aborted(message) == [aborted |-> TRUE, message |-> message]

Returned(value) == [aborted |-> FALSE, value |-> value]

\* average[key] after the results 2 .. i have been added to results[1][key].
RECURSIVE SumTo(_, _, _)
SumTo(results, key, i) ==
    IF i = 1 THEN results[1][key]
    ELSE FloatAdd(SumTo(results, key, i - 1), results[i][key])

\* computeAverage that hands back the first result whatever the count.
computeAverageFirst(results) ==
    IF Len(results) < 1 THEN Aborted("Expected at least one wrk2 result: ")
    ELSE Returned(results[1])

\* computeAverage(results)
computeAverage(results) ==
    LET count == Len(results)
    IN  IF count < 1 THEN Aborted("Expected at least one wrk2 result: ")
        ELSE IF count = 1 THEN Returned(results[1])
        ELSE IF \E i \in 2..count : DOMAIN results[i] # DOMAIN results[1]
        THEN Aborted("There is a mismatch between the keys of multiple wrk2 runs: ")
        ELSE Returned([key \in DOMAIN results[1] |->
                          FloatDiv(SumTo(results, key, count), FloatOfInt(count))])

\* computeAverage that adds up in a dict of its own.
computeAverageLeavesCopy(results) == results

\* The list results as computeAverage(results) leaves it: average is
\* results[0] itself, so the first result receives the sums and then the
\* quotients; an abort on differing keys at result i leaves it holding the
\* sum of the results before i.
computeAverageLeaves(results) ==
    LET count == Len(results)
        bad   == { i \in 2..count : DOMAIN results[i] # DOMAIN results[1] }
    IN  IF count < 2 THEN results
        ELSE IF bad # {}
        THEN LET i == CHOOSE x \in bad : \A y \in bad : x <= y
             IN  [results EXCEPT ![1] =
                    [key \in DOMAIN results[1] |-> SumTo(results, key, i - 1)]]
        ELSE [results EXCEPT ![1] = computeAverage(results).value]

\* The results averaged: a throughput and a latency of 0.1 or 1.5 each, or a
\* throughput alone.
ResultValues == FloatsOf({<<1, 10>>, <<3, 2>>})

ResultDicts ==
    [{"throughput", "99.000%"} -> ResultValues] \cup [{"throughput"} -> ResultValues]

ComputeAverageCalls ==
    UNION { [fn : {"computeAverage"}, results : [1..n -> ResultDicts]]
            : n \in 0..MaxResults }

ApplyComputeAverage ==
    /\ call.fn = "computeAverage" /\ ~result.done
    /\ result' = [done |-> TRUE, value |-> computeAverage(call.results),
                  results |-> computeAverageLeaves(call.results)]
    /\ UNCHANGED <<call, probe, configVars, hookVars, outVars, envVars, flowVars, threadVars,
                   procVars, wrkVars, histVars>>

\* ------------------------------------------------------------------------
\* computePeakThroughputRSS
\* ------------------------------------------------------------------------
\* Most datapoints in one batch.
MaxDatapoints == 3

\* A datapoint: the fields the function reads and writes, and one that it
\* only copies.
Datapoint(name, value, unit, better) ==
    [benchmark |-> "service", name |-> name, value |-> value, unit |-> unit,
     better |-> better]

\* The last datapoint of the batch with the name, or None: the loop
\* overwrites its variable at every match.
NoDatapoint == [name |-> "None"]

LastNamed(datapoints, name) ==
    LET at == { i \in 1..Len(datapoints) : datapoints[i].name = name }
    IN  IF at = {} THEN NoDatapoint
        ELSE datapoints[CHOOSE i \in at : \A j \in at : j <= i]

\* The ways out of a function: mx.abort(message), an exception that nothing
\* catches (a / b raises ZeroDivisionError for b = 0, float(text) raises
\* ValueError for a text that is no number), and a return.
AbortedWith(message) == [kind |-> "aborted", message |-> message]

Raised(error) == [kind |-> "raised", error |-> error]

ReturnedValue(value) == [kind |-> "returned", value |-> value]

\* The new datapoint for the two converted values, newtput / newrss.
NewDatapoint(tputDatapoint, newtput, newrss) ==
    IF newtput.aborted THEN AbortedWith(newtput.message)
    ELSE IF newrss.aborted THEN AbortedWith(newrss.message)
    ELSE IF Len(newrss.value.m) = 0 THEN Raised("ZeroDivisionError")
    ELSE [kind |-> "datapoint",
          datapoint |->
              [tputDatapoint EXCEPT
                  !.name = "ops-per-GB-second",
                  !.value = FloatDiv(newtput.value, newrss.value),
                  !.unit = "op/GB*s",
                  !.better = "higher"]]

\* computePeakThroughputRSS that leaves the footprint in the unit it came in.
computePeakThroughputRSSUnconverted(datapoints) ==
    LET tputDatapoint == LastNamed(datapoints, "peak-throughput")
        rssDatapoint  == LastNamed(datapoints, "max-rss")
    IN  IF tputDatapoint # NoDatapoint /\ rssDatapoint # NoDatapoint
        THEN NewDatapoint(tputDatapoint,
                 convertValue(tputUnitTable, tputDatapoint.value,
                              tputDatapoint.unit, "op/s"),
                 convertValue(memUnitTable, rssDatapoint.value,
                              rssDatapoint.unit, rssDatapoint.unit))
        ELSE [kind |-> "None"]

\* computePeakThroughputRSS(datapoints)
computePeakThroughputRSS(datapoints) ==
    LET tputDatapoint == LastNamed(datapoints, "peak-throughput")
        rssDatapoint  == LastNamed(datapoints, "max-rss")
    IN  IF tputDatapoint # NoDatapoint /\ rssDatapoint # NoDatapoint
        THEN NewDatapoint(tputDatapoint,
                 convertValue(tputUnitTable, tputDatapoint.value,
                              tputDatapoint.unit, "op/s"),
                 convertValue(memUnitTable, rssDatapoint.value,
                              rssDatapoint.unit, "GB"))
        ELSE [kind |-> "None"]

\* validateStdoutWithDimensions: the datapoints of the rules and, when there
\* is one, the new datapoint after them.
validateStdoutWithDimensions(datapoints) ==
    LET newdatapoint == computePeakThroughputRSS(datapoints)
    IN  IF newdatapoint.kind = "datapoint"
        THEN [kind |-> "datapoints",
              datapoints |-> Append(datapoints, newdatapoint.datapoint)]
        ELSE IF newdatapoint.kind = "None"
        THEN [kind |-> "datapoints", datapoints |-> datapoints]
        ELSE newdatapoint

\* The datapoints of the batches: peak throughputs of 1000 op/s, 1.5 op/ms
\* and 1000 of a unit that is none of throughput; footprints of 2 GB,
\* 1500 MB and 0 GB; a startup time.
BatchDatapoints ==
    { Datapoint("peak-throughput", FloatOfInt(1000), "op/s", "higher"),
      Datapoint("peak-throughput", FloatOfDecimal(3, 2), "op/ms", "higher"),
      Datapoint("peak-throughput", FloatOfInt(1000), "MiB", "higher"),
      Datapoint("max-rss", FloatOfInt(2), "GB", "lower"),
      Datapoint("max-rss", FloatOfInt(1500), "MB", "lower"),
      Datapoint("max-rss", FloatOfInt(0), "GB", "lower"),
      Datapoint("app-startup", FloatOfInt(7), "ms", "lower") }

ComputePeakThroughputRSSCalls ==
    UNION { [fn : {"computePeakThroughputRSS"},
             datapoints : [1..n -> BatchDatapoints]] : n \in 0..MaxDatapoints }

ApplyComputePeakThroughputRSS ==
    /\ call.fn = "computePeakThroughputRSS" /\ ~result.done
    /\ result' = [done |-> TRUE,
                  value |-> computePeakThroughputRSS(call.datapoints),
                  validated |-> validateStdoutWithDimensions(call.datapoints)]
    /\ UNCHANGED <<call, probe, configVars, hookVars, outVars, envVars, flowVars, threadVars,
                   procVars, wrkVars, histVars>>

\* ------------------------------------------------------------------------
\* BaseJMeterBenchmarkSuite.run
\* ------------------------------------------------------------------------
\* Most datapoints that the run of the superclass returns.
MaxRunResults == 100

\* tailDatapointsToSkip rounding the tenth up.
tailDatapointsToSkipCeiling(results) == (Len(results) + 9) \div 10

\* tailDatapointsToSkip(results): int(len(results) * .10)
tailDatapointsToSkip(results) ==
    FloatTrunc(FloatMul(FloatOfInt(Len(results)), FloatOfDecimal(10, 100)))

\* The results that run hands to addAverageAcrossLatestResults:
\* results[:len(results) - self.tailDatapointsToSkip(results)]
BaseJMeterBenchmarkSuite_run(results) ==
    SubSeq(results, 1, Len(results) - tailDatapointsToSkip(results))

\* The results of the superclass: datapoints told apart by their iteration.
JMeterRunCalls ==
    { [fn |-> "BaseJMeterBenchmarkSuite.run", results |-> [i \in 1..n |-> i]]
      : n \in 0..MaxRunResults }

ApplyJMeterRun ==
    /\ call.fn = "BaseJMeterBenchmarkSuite.run" /\ ~result.done
    /\ result' = [done |-> TRUE,
                  skipped |-> tailDatapointsToSkip(call.results),
                  averaged |-> BaseJMeterBenchmarkSuite_run(call.results)]
    /\ UNCHANGED <<call, probe, configVars, hookVars, outVars, envVars, flowVars, threadVars,
                   procVars, wrkVars, histVars>>

\* ------------------------------------------------------------------------
\* extractThroughput, extractWrk2Results and verifyThroughput
\* ------------------------------------------------------------------------
\* The output of wrk is a sequence of lines, a line a sequence of the texts
\* that the patterns tell apart: <<"Requests/sec:", number>> for
\* "Requests/sec:  1500", <<percentile, number, unit>> for
\* "  99.000%  1.5ms".

\* Most lines of one output.
MaxLines == 3

\* The texts that \d*[.,]?\d* matches, among those of the outputs.
NumberTexts ==
    {"", "1500", "1454", "1455", "1545", "1546", "1.5", "1,5", "750", "2"}

\* float(text): the decimal it stands for as <<numerator, denominator>>, or
\* ValueError: float() takes no comma and no empty text.
DecimalOf(text) ==
    CASE text = "1500" -> <<1500, 1>>
      [] text = "1454" -> <<1454, 1>>
      [] text = "1455" -> <<1455, 1>>
      [] text = "1545" -> <<1545, 1>>
      [] text = "1546" -> <<1546, 1>>
      [] text = "1.5"  -> <<15, 10>>
      [] text = "750"  -> <<750, 1>>
      [] text = "2"    -> <<2, 1>>
      [] OTHER         -> "ValueError"

IsFloatText(text) == DecimalOf(text) # "ValueError"

FloatOfText(text) == FloatOfDecimal(DecimalOf(text)[1], DecimalOf(text)[2])

\* ^Requests/sec:\s*(\d*[.,]?\d*)\s*$
MatchesThroughput(line) ==
    Len(line) = 2 /\ line[1] = "Requests/sec:" /\ line[2] \in NumberTexts

\* ^\s*(\d*[.,]?\d*%)\s+(\d*[.,]?\d*)([mun]?s)\s*$
MatchesLatency(line) ==
    /\ Len(line) = 3
    /\ line[1] \in {"50.000%", "99.000%"}
    /\ line[2] \in NumberTexts
    /\ line[3] \in {"ms", "us", "ns", "s"}

\* extractThroughput(output); re.findall gives the matching lines in order.
extractThroughput(output) ==
    LET matches == SelectSeq(output, MatchesThroughput)
    IN  IF Len(matches) # 1
        THEN AbortedWith("Expected exactly one throughput result in the output: ")
        ELSE IF ~IsFloatText(matches[1][2]) THEN Raised("ValueError")
        ELSE ReturnedValue(FloatOfText(matches[1][2]))

\* The result after the loop over the matches i .. Len(matches), a later match
\* of a percentile replacing an earlier one; ValueError at the first text
\* that is no number.
RECURSIVE LatencyResults(_, _, _, _)
LatencyResults(matches, i, results, toMs) ==
    IF i > Len(matches) THEN ReturnedValue(results)
    ELSE IF ~IsFloatText(matches[i][2]) THEN Raised("ValueError")
    ELSE LET val  == IF toMs
                     THEN convertValue(timeUnitTable, FloatOfText(matches[i][2]),
                                       matches[i][3], "ms").value
                     ELSE FloatOfText(matches[i][2])
             keys == DOMAIN results \cup {matches[i][1]}
         IN  LatencyResults(matches, i + 1,
                 [k \in keys |-> IF k = matches[i][1] THEN val ELSE results[k]],
                 toMs)

\* extractWrk2Results with the latencies as the lines have them.
extractWrk2ResultsUnconverted(output) ==
    LET throughput == extractThroughput(output)
        matches    == SelectSeq(output, MatchesLatency)
    IN  IF throughput.kind # "returned" THEN throughput
        ELSE IF Len(matches) <= 0
        THEN AbortedWith("No latency results found in output")
        ELSE LatencyResults(matches, 1,
                            [k \in {"throughput"} |-> throughput.value], FALSE)

\* extractWrk2Results(output)
extractWrk2Results(output) ==
    LET throughput == extractThroughput(output)
        matches    == SelectSeq(output, MatchesLatency)
    IN  IF throughput.kind # "returned" THEN throughput
        ELSE IF Len(matches) <= 0
        THEN AbortedWith("No latency results found in output")
        ELSE LatencyResults(matches, 1,
                            [k \in {"throughput"} |-> throughput.value], TRUE)

\* The lines of the outputs: throughput lines of 1500, 1455 and "1,5",
\* latency lines in ms, us and ns, one with no number, and a line that no
\* pattern matches.
OutputLines ==
    { <<"Requests/sec:", "1500">>, <<"Requests/sec:", "1455">>,
      <<"Requests/sec:", "1,5">>,
      <<"99.000%", "1.5", "ms">>, <<"50.000%", "750", "us">>,
      <<"99.000%", "2", "ns">>, <<"50.000%", "", "s">>,
      <<"Running", "30s", "test">> }

WrkOutputs == UNION { [1..n -> OutputLines] : n \in 0..MaxLines }

ExtractWrk2ResultsCalls == [fn : {"extractWrk2Results"}, output : WrkOutputs]

ApplyExtractWrk2Results ==
    /\ call.fn = "extractWrk2Results" /\ ~result.done
    /\ result' = [done |-> TRUE,
                  throughput |-> extractThroughput(call.output),
                  value |-> extractWrk2Results(call.output)]
    /\ UNCHANGED <<call, probe, configVars, hookVars, outVars, envVars, flowVars, threadVars,
                   procVars, wrkVars, histVars>>

\* The outcome of verifyThroughput: aborted, raised, or returned with or
\* without the warning.
Verified(warned) == [kind |-> "returned", warned |-> warned]

\* verifyThroughput that tests the lower limit only.
verifyThroughputLowerOnly(output, expectedThroughput) ==
    LET matches == SelectSeq(output, MatchesThroughput)
    IN  IF Len(matches) # 1
        THEN AbortedWith("Expected exactly one throughput result in the output: ")
        ELSE IF ~IsFloatText(matches[1][2]) THEN Raised("ValueError")
        ELSE Verified(FloatLess(FloatOfText(matches[1][2]),
                                FloatMul(expectedThroughput, FloatOfDecimal(97, 100))))

\* verifyThroughput(output, expectedThroughput); mx.warn is the warning.
verifyThroughput(output, expectedThroughput) ==
    LET matches == SelectSeq(output, MatchesThroughput)
    IN  IF Len(matches) # 1
        THEN AbortedWith("Expected exactly one throughput result in the output: ")
        ELSE IF ~IsFloatText(matches[1][2]) THEN Raised("ValueError")
        ELSE LET actualThroughput == FloatOfText(matches[1][2])
             IN  Verified(
                     \/ FloatLess(actualThroughput,
                                  FloatMul(expectedThroughput, FloatOfDecimal(97, 100)))
                     \/ FloatLess(FloatMul(expectedThroughput, FloatOfDecimal(103, 100)),
                                  actualThroughput))

\* verifyWarmup(output, config), config the warmup-requests-per-second of
\* the script as <<numerator, denominator>>.
verifyWarmup(output, config) ==
    verifyThroughput(output, FloatOfDecimal(config[1], config[2]))

\* The lines of the outputs verified: throughputs at, inside and outside
\* the limits of an expected rate of 1500, one that float() refuses, and a
\* line that the pattern does not match.
VerifiedLines ==
    { <<"Requests/sec:", "1500">>, <<"Requests/sec:", "1454">>,
      <<"Requests/sec:", "1455">>, <<"Requests/sec:", "1545">>,
      <<"Requests/sec:", "1546">>, <<"Requests/sec:", "1,5">>,
      <<"Running", "30s", "test">> }

\* The expected rates: 1500 and 1499.5.
ExpectedRates == {<<1500, 1>>, <<14995, 10>>}

VerifyThroughputCalls ==
    [fn : {"verifyWarmup"},
     output : UNION { [1..n -> VerifiedLines] : n \in 0..MaxLines },
     config : ExpectedRates]

ApplyVerifyThroughput ==
    /\ call.fn = "verifyWarmup" /\ ~result.done
    /\ result' = [done |-> TRUE, value |-> verifyWarmup(call.output, call.config)]
    /\ UNCHANGED <<call, probe, configVars, hookVars, outVars, envVars, flowVars, threadVars,
                   procVars, wrkVars, histVars>>

\* ------------------------------------------------------------------------
\* The numeric functions evaluated on their own
\* ------------------------------------------------------------------------
NumCalls ==
    ConvertValueCalls \cup ComputeAverageCalls
      \cup ComputePeakThroughputRSSCalls \cup JMeterRunCalls
      \cup ExtractWrk2ResultsCalls \cup VerifyThroughputCalls

InitNum ==
    /\ call \in NumCalls /\ result = NoResult /\ probe = NoProbe
    /\ InitIdle

NextNum ==
    \/ ApplyConvertValue
    \/ ApplyComputeAverage
    \/ ApplyComputePeakThroughputRSS
    \/ ApplyJMeterRun
    \/ ApplyExtractWrk2Results
    \/ ApplyVerifyThroughput

SpecNum == InitNum /\ [][NextNum]_vars

\* ------------------------------------------------------------------------
\* loadConfiguration
\* ------------------------------------------------------------------------
\* Most elements of a list of the configuration file.
MaxConfigured == 2

\* A value of the configuration file: a scalar or a list of scalars; Absent
\* stands for a key that the file does not have. A scalar is <<key, i>>, the
\* i-th value of the key in the file; <<key, 0>> is the number 0.
Absent == [type |-> "absent"]

ScalarValue(value) == [type |-> "scalar", value |-> value]

ListValue(items) == [type |-> "list", items |-> items]

\* isScalarValue(value)
isScalarValue(value) == value.type = "scalar"

\* bool(value): None, 0 and the empty list are false.
Truthy(value) ==
    \/ value.type = "scalar" /\ value.value[2] # 0
    \/ value.type = "list" /\ Len(value.items) > 0

\* readConfig(config, key, optional): the value, None for an optional key
\* that is absent (Absent stands for it), or the abort.
readConfig(config, key, optional) ==
    IF config[key] # Absent THEN ReturnedValue(config[key])
    ELSE IF optional THEN ReturnedValue(Absent)
    ELSE AbortedWith(<<"Mandatory entry ", key, " not specified in Wrk configuration.">>)

\* The keys of a group that must be there, in the order they are read.
MandatoryKeys == <<"script", "warmup-requests-per-second", "warmup-duration", "duration">>

\* value[i] of the list branch, i counted from 1: TypeError for a number,
\* IndexError beyond the end of a list.
ItemOf(value, i) ==
    IF value.type # "list" THEN Raised("TypeError")
    ELSE IF i > Len(value.items) THEN Raised("IndexError")
    ELSE ReturnedValue(value.items[i])

\* One result: the values common to the scripts and those of one script,
\* requests-per-second only when the group has a true value for it.
ScriptConfig(config, script, warmupRate, warmupDuration, duration, hasRate, rate) ==
    LET keys == {"target-url", "connections", "threads", "script",
                 "warmup-requests-per-second", "warmup-duration", "duration"}
                  \cup (IF hasRate THEN {"requests-per-second"} ELSE {})
    IN  [k \in keys |->
            CASE k = "script" -> script
              [] k = "warmup-requests-per-second" -> warmupRate
              [] k = "warmup-duration" -> warmupDuration
              [] k = "duration" -> duration
              [] k = "requests-per-second" -> rate
              [] OTHER -> config[k]]

\* The keys of a group that the list branch indexes for a script, in the
\* order it does, requests-per-second only when its value is true.
IndexedKeys(group) ==
    SelectSeq(<<"script", "warmup-requests-per-second", "warmup-duration",
                "duration", "requests-per-second">>,
              LAMBDA k : k # "requests-per-second" \/ Truthy(group[k]))

\* The results of the list branch for the scripts i .. count, or the
\* exception of the first value[i] that is not there.
RECURSIVE ListConfigs(_, _, _, _)
ListConfigs(config, group, i, count) ==
    IF i > count THEN ReturnedValue(<< >>)
    ELSE LET keys   == IndexedKeys(group)
             failed == { n \in 1..Len(keys) :
                           ItemOf(group[keys[n]], i).kind # "returned" }
             rate   == group["requests-per-second"]
             rest   == ListConfigs(config, group, i + 1, count)
         IN  IF failed # {}
             THEN ItemOf(group[keys[CHOOSE n \in failed : \A o \in failed : n <= o]], i)
             ELSE IF rest.kind # "returned" THEN rest
             ELSE ReturnedValue(
                   <<ScriptConfig(config, group["script"].items[i],
                        group["warmup-requests-per-second"].items[i],
                        group["warmup-duration"].items[i],
                        group["duration"].items[i],
                        Truthy(rate),
                        IF Truthy(rate) THEN rate.items[i] ELSE << >>)>>
                     \o rest.value)

SameCountMessage ==
    "The configuration elements 'script', 'warmup-requests-per-second', 'warmup-duration', and 'duration' must have the same number of elements."

\* loadConfiguration for the group under groupKey of a configuration file
\* that has target-url, connections and threads; checkDuration is whether
\* the length of duration is compared with that of script.
LoadGroup(config, groupKey, checkDuration) ==
    IF config[groupKey] = Absent THEN readConfig(config, groupKey, FALSE)
    ELSE LET group  == config[groupKey]
             absent == { i \in 1..Len(MandatoryKeys) : group[MandatoryKeys[i]] = Absent }
             script == group["script"]
             rate   == group["requests-per-second"]
         IN  IF absent # {}
             THEN readConfig(group,
                      MandatoryKeys[CHOOSE i \in absent : \A j \in absent : i <= j],
                      FALSE)
             ELSE IF \E i \in 2..Len(MandatoryKeys) :
                         isScalarValue(group[MandatoryKeys[i]]) # isScalarValue(script)
             THEN AbortedWith(SameCountMessage)
             ELSE IF isScalarValue(script)
             THEN ReturnedValue(
                   <<ScriptConfig(config, script.value,
                        group["warmup-requests-per-second"].value,
                        group["warmup-duration"].value,
                        group["duration"].value,
                        Truthy(rate),
                        IF rate.type = "list" THEN rate.items ELSE rate.value)>>)
             ELSE IF \E i \in 2..Len(MandatoryKeys) :
                         /\ Len(group[MandatoryKeys[i]].items) # Len(script.items)
                         /\ checkDuration \/ MandatoryKeys[i] # "duration"
             THEN AbortedWith(SameCountMessage)
             ELSE ListConfigs(config, group, 1, Len(script.items))

\* loadConfiguration that does not compare the length of duration.
loadConfigurationDurationUnchecked(config, groupKey) ==
    LoadGroup(config, groupKey, FALSE)

\* loadConfiguration(groupKey), config the content of the configuration file
loadConfiguration(config, groupKey) == LoadGroup(config, groupKey, TRUE)

\* The i-th value of a key in the files of the calls.
ElementOf(key, i) == <<key, i>>

ListOf(key, n) == ListValue([i \in 1..n |-> ElementOf(key, i)])

\* The values of a mandatory key: absent, a scalar, a list of 0 to
\* MaxConfigured elements; those of requests-per-second also the scalar 0
\* and a list of one more element.
ValuesOf(key) ==
    {Absent, ScalarValue(ElementOf(key, 1))}
      \cup { ListOf(key, n) : n \in 0..MaxConfigured }
      \cup (IF key = "requests-per-second"
            THEN {ScalarValue(ElementOf(key, 0)), ListOf(key, MaxConfigured + 1)}
            ELSE {})

GroupKeys ==
    {"script", "warmup-requests-per-second", "warmup-duration", "duration",
     "requests-per-second"}

Group(script, warmupRate, warmupDuration, duration, rate) ==
    [k \in GroupKeys |->
        CASE k = "script" -> script
          [] k = "warmup-requests-per-second" -> warmupRate
          [] k = "warmup-duration" -> warmupDuration
          [] k = "duration" -> duration
          [] k = "requests-per-second" -> rate]

Groups ==
    { Group(s, wr, wd, d, r) :
        s \in ValuesOf("script"), wr \in ValuesOf("warmup-requests-per-second"),
        wd \in ValuesOf("warmup-duration"), d \in ValuesOf("duration"),
        r \in ValuesOf("requests-per-second") }

\* The configuration files: target-url, connections, threads and a latency
\* group; the throughput group is there in one of them.
ConfigFile(latency, throughput) ==
    [k \in {"target-url", "connections", "threads", "latency", "throughput"} |->
        CASE k = "target-url"  -> "http://localhost:8080"
          [] k = "connections" -> 10
          [] k = "threads"     -> 2
          [] k = "latency"     -> latency
          [] k = "throughput"  -> throughput]

LoadConfigurationCalls ==
    { [fn |-> "loadConfiguration", groupKey |-> "latency",
       config |-> ConfigFile(g, Absent)] : g \in Groups }
      \cup { [fn |-> "loadConfiguration", groupKey |-> "throughput",
              config |-> ConfigFile(g, t)]
             : g \in {[k \in GroupKeys |-> ListOf(k, 1)]},
               t \in {Absent,
                       [k \in GroupKeys |->
                           IF k = "requests-per-second" THEN Absent
                           ELSE ScalarValue(ElementOf(k, 1))]} }

ApplyLoadConfiguration ==
    /\ call.fn = "loadConfiguration" /\ ~result.done
    /\ result' = [done |-> TRUE,
                  value |-> loadConfiguration(call.config, call.groupKey)]
    /\ UNCHANGED <<call, probe, configVars, hookVars, outVars, envVars, flowVars, threadVars,
                   procVars, wrkVars, histVars>>

\* ------------------------------------------------------------------------
\* strip_args_with_number
\* ------------------------------------------------------------------------
\* An argument is the sequence of its characters.

\* Most elements of args.
MaxStripped == 3

Digits == {"0", "1", "2", "3", "4", "5", "6", "7", "8", "9"}

\* arg.startswith(prefix)
HasPrefix(arg, prefix) ==
    Len(arg) >= Len(prefix) /\ SubSeq(arg, 1, Len(prefix)) = prefix

\* int(text) succeeds: digits after an optional sign.
IsInt(text) ==
    LET digits == IF Len(text) >= 1 /\ text[1] \in {"-", "+"} THEN Tail(text) ELSE text
    IN  Len(digits) >= 1 /\ \A i \in 1..Len(digits) : digits[i] \in Digits

\* The pass of the generator for one option, skip_next being its flag;
\* attached is whether an option with its number attached is dropped.
RECURSIVE StripArgFrom(_, _, _, _)
StripArgFrom(_strip_arg, _args, skip_next, attached) ==
    IF Len(_args) = 0 THEN << >>
    ELSE LET arg  == Head(_args)
             rest == Tail(_args)
         IN  IF skip_next THEN StripArgFrom(_strip_arg, rest, FALSE, attached)
             ELSE IF arg = _strip_arg
             THEN StripArgFrom(_strip_arg, rest, TRUE, attached)
             ELSE IF /\ attached
                     /\ HasPrefix(arg, _strip_arg)
                     /\ Len(_strip_arg) = 2 /\ HasPrefix(_strip_arg, <<"-">>)
                     /\ IsInt(SubSeq(arg, Len(_strip_arg) + 1, Len(arg)))
             THEN StripArgFrom(_strip_arg, rest, FALSE, attached)
             ELSE <<arg>> \o StripArgFrom(_strip_arg, rest, FALSE, attached)

\* The passes for the options i .. Len(strip_args), one after the other.
RECURSIVE StripAll(_, _, _, _)
StripAll(strip_args, i, remaining, attached) ==
    IF i > Len(strip_args) THEN remaining
    ELSE StripAll(strip_args, i + 1,
                  StripArgFrom(strip_args[i], remaining, FALSE, attached), attached)

\* strip_args is a list of options, or one option that is not in a list.
AsList(strip_args) ==
    IF strip_args.list THEN strip_args.value ELSE <<strip_args.value>>

\* strip_args_with_number that keeps an option with its number attached.
strip_args_with_numberExactOnly(strip_args, args) ==
    StripAll(AsList(strip_args), 1, args, FALSE)

\* strip_args_with_number(strip_args, args)
strip_args_with_number(strip_args, args) ==
    StripAll(AsList(strip_args), 1, args, TRUE)

\* The arguments of the calls: -i, -w, -i8, -ix, 8, --wi and --wi8.
StripElements ==
    { <<"-", "i">>, <<"-", "w">>, <<"-", "i", "8">>, <<"-", "i", "x">>,
      <<"8">>, <<"-", "-", "w", "i">>, <<"-", "-", "w", "i", "8">> }

\* The options stripped: -i alone, -i in a list, -i and -w in both orders,
\* and --wi.
StripOptions ==
    { [list |-> FALSE, value |-> <<"-", "i">>],
      [list |-> TRUE, value |-> <<<<"-", "i">>>>],
      [list |-> TRUE, value |-> <<<<"-", "i">>, <<"-", "w">>>>],
      [list |-> TRUE, value |-> <<<<"-", "w">>, <<"-", "i">>>>],
      [list |-> TRUE, value |-> <<<<"-", "-", "w", "i">>>>] }

StripArgsCalls ==
    [fn : {"strip_args_with_number"}, strip_args : StripOptions,
     args : UNION { [1..n -> StripElements] : n \in 0..MaxStripped }]

ApplyStripArgs ==
    /\ call.fn = "strip_args_with_number" /\ ~result.done
    /\ result' = [done |-> TRUE,
                  value |-> strip_args_with_number(call.strip_args, call.args)]
    /\ UNCHANGED <<call, probe, configVars, hookVars, outVars, envVars, flowVars, threadVars,
                   procVars, wrkVars, histVars>>

\* ------------------------------------------------------------------------
\* The configuration and argument functions evaluated on their own
\* ------------------------------------------------------------------------
ConfCalls ==
    LoadConfigurationCalls \cup StripArgsCalls

InitConf ==
    /\ call \in ConfCalls /\ result = NoResult /\ probe = NoProbe
    /\ InitIdle

NextConf ==
    \/ ApplyLoadConfiguration
    \/ ApplyStripArgs

SpecConf == InitConf /\ [][NextConf]_vars


\* ------------------------------------------------------------------------
\* Platforms without a load generator, and progress
\* ------------------------------------------------------------------------

\* Stage names of the flows checked for progress.
LiveStages == {"agent", "image", "run", "bogus"}

\* Every platform, both modes; peak and startup are measured, the latency
\* part runs with one script, calibrated or at a fixed rate.
InitLive ==
    /\ call = NoCall /\ result = NoResult /\ probe = NoProbe
    /\ inNativeMode \in BOOLEAN
    /\ stage \in LiveStages
    /\ nonZeroIsFatal \in BOOLEAN
    /\ measureLatency = TRUE
    /\ measureFirstResponse \in BOOLEAN
    /\ measureStartup = TRUE
    /\ measurePeak = TRUE
    /\ latencyRps \in SeqsUpTo(RpsValues, 1)
    /\ platform \in Platforms
    /\ suiteEnv = EmptyMap
    /\ priorEnv = ("PATH" :> "bin")
    /\ InitFlow

\* How a task ends at its first runWrk1 / runWrk2 call on a platform without
\* a load generator: getOS calls mx.abort for an OS it does not know,
\* runWrk raises ValueError when the binary is missing.
UnsupportedEnd(p) == IF p = "unsupported-os" THEN "aborted" ELSE "raised"

\* The first runWrk1 / runWrk2 call of a workload on such a platform: the
\* task ends before mx.run of the load generator, and before
\* terminateApplication.
WorkloadUnsupported ==
    /\ ~GeneratorAvailable(platform)
    /\ \E t \in threads :
        /\ t.pc = "workload"
        /\ threads' = ReplaceThread(t,
               [t EXCEPT !.pc = UnsupportedEnd(platform),
                         !.workloadInvoked = TRUE])
    /\ UNCHANGED <<fnVars, configVars, hookVars, outVars, envVars, flowVars,
                   nThreads, measurementThread, procVars, wrkVars, histVars>>

\* mx.abort in a task signals the subprocesses mx has registered before it
\* ends the task.
AbortKills ==
    /\ \E t \in threads, p \in procs :
        /\ t.pc = "aborted"
        /\ Running(p) /\ ~p.signalled
        /\ procs' = ReplaceProc(p, [p EXCEPT !.signalled = TRUE])
    /\ UNCHANGED <<fnVars, configVars, hookVars, outVars, envVars, flowVars,
                   threadVars, nProcs, wrkVars, histVars>>

\* A process that was sent SIGTERM exits; the image build ends on its own.
ProcExitSignalled ==
    /\ \E p \in procs, c \in ExitCodes :
        /\ Running(p)
        /\ p.signalled \/ p.kind = "build"
        /\ procs' = ReplaceProc(p, [p EXCEPT !.state = "exited", !.code = c])
    /\ UNCHANGED <<fnVars, configVars, hookVars, outVars, envVars, flowVars,
                   threadVars, nProcs, wrkVars, histVars>>

NextLive == Next \/ WorkloadUnsupported \/ AbortKills

\* The steps that are taken when they can be: those of the controlling flow
\* and of the tasks, the service binding its port, the exit of a signalled
\* process. A service nobody signalled may run for ever.
LiveStep ==
    \/ RunStageImage \/ BuildReturn \/ RunStageRun \/ RunStageAgent
    \/ RunStageUnexpected \/ RunJvm
    \/ EnterPhase \/ StartDaemonThread \/ LaunchService \/ ServiceReturn
    \/ Join \/ ExitPhase \/ ValidateAbort \/ NextPhase
    \/ ProcBind \/ ProcExitSignalled
    \/ MeasureFirstResponse \/ MeasureFirstResponseTimeout \/ WaitForPort
    \/ WorkloadThroughput \/ WorkloadFails \/ Calibrate \/ TestLatency
    \/ WorkloadUnsupported \/ TerminateApplication \/ AbortKills

SpecLive == InitLive /\ [][NextLive]_vars /\ WF_vars(LiveStep)

\* ------------------------------------------------------------------------
\* C33
\* ------------------------------------------------------------------------

\* C33 as stated: when no load-generator binary exists for the platform, no
\* service process and no load-generator process is ever started.
C33_Original ==
    platform # "supported" =>
        /\ \A p \in procs : p.kind # "service"
        /\ \A t \in threads : ~t.generatorStarted

\* C33: when no load-generator binary exists for the platform, no task starts
\* a load-generator process: a task that reaches its workload has found the
\* running service before, makes no warmup run, and ends by an abort or an
\* exception, without a call of terminateApplication.
C33_FailsBeforeGenerator ==
    platform # "supported" =>
        \A t \in threads :
            /\ ~t.generatorStarted /\ ~t.warmupRun /\ ~t.workloadReturned
            /\ t.workloadInvoked =>
                  /\ t.pc \in {"aborted", "raised"}
                  /\ t.portFound /\ nProcs >= 1
                  /\ t.terminateCalls = 0

\* C33 witness: the binary is missing, the task has raised at its workload,
\* and the service it found is still running, unsignalled.
C33_RaisedWithService ==
    /\ platform = "no-binary"
    /\ \E t \in threads : t.pc = "raised" /\ t.workloadInvoked
    /\ \E p \in procs : p.kind = "service" /\ p.state = "listening"
                        /\ ~p.signalled

\* C33 witness: the OS is unknown, the task has aborted at its workload, and
\* the service was signalled by the abort.
C33_AbortedWithService ==
    /\ platform = "unsupported-os"
    /\ \E t \in threads : t.pc = "aborted" /\ t.workloadInvoked
    /\ \E p \in procs : p.kind = "service" /\ p.signalled


\* ------------------------------------------------------------------------
\* The output buffers along the flow
\* ------------------------------------------------------------------------
\* The text a task writes is the one token that names its target.

\* The targets whose task writes a buffer.
PhaseTexts == {"ttfr", "startup", "peak", "latency"}

\* The buffers after the task with this target has stored its output:
\* measureTimeToFirstResponse appends to timeToFirstResponseOutputs,
\* testStartupPerformance, testPeakPerformance and testLatency assign
\* startupOutput, peakOutput and latencyOutput; calibrateLatencyTest writes
\* none of them.
WriteBuffer(bufs, target) ==
    IF target = "ttfr"
    THEN [bufs EXCEPT !.timeToFirstResponseOutputs = Append(@, <<target>>)]
    ELSE IF target = "startup" THEN [bufs EXCEPT !.startupOutput = <<target>>]
    ELSE IF target = "peak" THEN [bufs EXCEPT !.peakOutput = <<target>>]
    ELSE IF target = "latency" THEN [bufs EXCEPT !.latencyOutput = <<target>>]
    ELSE bufs

\* What super().runAndReturnStdOut returns for a service that exited with
\* this code.
UnderlyingRun(code) == [ret_code |-> code, out |-> <<"app">>, dims |-> EmptyMap]

\* One configuration with a calibrated and one with a fixed latency rate,
\* both modes, the stages with and without a service.
InitOut ==
    /\ call = NoCall /\ result = NoResult /\ probe = NoProbe
    /\ inNativeMode \in BOOLEAN
    /\ stage \in LiveStages
    /\ nonZeroIsFatal \in BOOLEAN
    /\ measureLatency = TRUE
    /\ measureFirstResponse \in BOOLEAN
    /\ measureStartup = TRUE
    /\ measurePeak = TRUE
    /\ latencyRps \in SeqsUpTo(RpsValues, 1)
    /\ platform = "supported"
    /\ suiteEnv = EmptyMap
    /\ priorEnv = ("PATH" :> "bin")
    /\ InitFlow

\* measureTimeToFirstResponse: a 200 response arrives, the measured time is
\* appended to the suite's timeToFirstResponseOutputs.
MeasureFirstResponseOut ==
    /\ \E t \in threads :
        /\ t.pc = "measure"
        /\ Listening(procs) # {}
        /\ threads' = ReplaceThread(t, [t EXCEPT !.pc = "waitPort"])
        /\ buffers' = WriteBuffer(buffers, t.target)
    /\ UNCHANGED <<fnVars, configVars, hookVars, lastReport, envVars, flowVars,
                   nThreads, measurementThread, procVars, wrkVars, histVars>>

\* testStartupPerformance() / testPeakPerformance(warmup) return, the output
\* of the measurement stored.
WorkloadThroughputOut ==
    /\ \E t \in threads :
        /\ t.pc = "workload" /\ t.target \in {"startup", "peak"}
        /\ GeneratorAvailable(platform)
        /\ threads' = ReplaceThread(t, AfterWorkload(t))
        /\ buffers' = WriteBuffer(buffers, t.target)
    /\ UNCHANGED <<fnVars, configVars, hookVars, lastReport, envVars, flowVars,
                   nThreads, measurementThread, procVars, wrkVars, histVars>>

\* testLatency(): latencyOutput is assigned after the last script.
TestLatencyOut ==
    /\ \E t \in threads, k \in 0..Len(latencyRps) :
        /\ t.pc = "workload" /\ t.target = "latency"
        /\ GeneratorAvailable(platform)
        /\ \A i \in 1..k : HasRate(latencyRps, calibratedThroughput, i)
        /\ latencyRates' =
              [i \in 1..k |-> ExpectedRate(latencyRps, calibratedThroughput, i)]
        /\ threads' = ReplaceThread(t,
              IF k = Len(latencyRps) THEN AfterWorkload(t)
              ELSE WorkloadAborted(t, TRUE, TRUE))
        /\ buffers' = IF k = Len(latencyRps)
                      THEN WriteBuffer(buffers, t.target) ELSE buffers
    /\ UNCHANGED <<fnVars, configVars, hookVars, lastReport, envVars, flowVars,
                   nThreads, measurementThread, procVars, calibratedThroughput,
                   measuredMax, histVars>>

\* The service process has exited. In native mode mx.run returns its code or
\* raises; in JVM mode the invocation is super().run, in which
\* runAndReturnStdOut composes the buffers with the application's output and
\* resets them before the framework validates the exit code.
ServiceReturnOut ==
    /\ pc = "wait"
    /\ \E p \in Exited(procs, nProcs) :
        /\ procs' = { q \in procs : q # p \/ Running(q) }
        /\ retcodes' = Append(retcodes, p.code)
        /\ IF InvocationRaises(inNativeMode, p.code, nonZeroIsFatal)
           THEN /\ pendingExc' = TRUE /\ abortCause' = "service"
                /\ UNCHANGED returnCode
           ELSE /\ returnCode' = p.code
                /\ UNCHANGED <<pendingExc, abortCause>>
        /\ pc' = AfterServiceReturn(
                    InvocationRaises(inNativeMode, p.code, nonZeroIsFatal))
        /\ IF inNativeMode
           THEN UNCHANGED outVars
           ELSE LET r == runAndReturnStdOut(FALSE, UnderlyingRun(p.code), buffers)
                IN  /\ buffers' = r.bufs
                    /\ lastReport' = [block |-> block, out |-> r.value.out]
    /\ UNCHANGED <<fnVars, configVars, hookVars, envVars, block, ttfrIter,
                   nProcs, threadVars, wrkVars, started, nPhases>>

\* Native mode: runAndReturnStdOut composes the buffers once the stages have
\* run, and keeps them.
ReportNative ==
    /\ inNativeMode /\ pc = "returned" /\ lastReport = NoReport
    /\ LET r == runAndReturnStdOut(TRUE, UnderlyingRun(returnCode), buffers)
       IN  /\ buffers' = r.bufs
           /\ lastReport' = [block |-> "stages", out |-> r.value.out]
    /\ UNCHANGED <<fnVars, configVars, hookVars, envVars, flowVars, threadVars,
                   procVars, wrkVars, histVars>>

NextOut ==
    \/ RunStageImage \/ BuildReturn \/ RunStageRun \/ RunStageAgent
    \/ RunStageUnexpected \/ RunJvm
    \/ EnterPhase \/ StartDaemonThread \/ LaunchService \/ ServiceReturnOut
    \/ Join \/ ExitPhase \/ ValidateAbort \/ NextPhase
    \/ ProcBind \/ ProcExit
    \/ MeasureFirstResponseOut \/ MeasureFirstResponseTimeout \/ WaitForPort
    \/ WorkloadThroughputOut \/ WorkloadFails \/ Calibrate \/ TestLatencyOut
    \/ TerminateApplication \/ ReportNative

SpecOut == InitOut /\ [][NextOut]_vars

\* ------------------------------------------------------------------------
\* C34
\* ------------------------------------------------------------------------

\* The task of the current phase has been started and not been joined.
C34_Unjoined == \E t \in threads : t.id = measurementThread

\* C34 as stated: the controlling flow composes (reads) and resets the
\* buffers only when the task of the phase has been joined.
C34_Original == [][lastReport' # lastReport => ~C34_Unjoined]_vars

\* C34: in native mode the buffers are read after every task was joined, and
\* the flow never resets them.
C34_NativeReadsAfterJoin ==
    [][inNativeMode =>
         /\ lastReport' # lastReport => threads = {}
         /\ \A key \in DOMAIN buffers :
               buffers[key] # << >> => buffers'[key] # << >>]_vars

\* C34: in JVM mode every read and reset finds the task of the phase
\* unjoined.
C34_JvmReadsBeforeJoin ==
    [][~inNativeMode /\ lastReport' # lastReport => C34_Unjoined]_vars

\* C34: the JVM flow has read and reset the buffers while the task of the
\* phase was still at its workload, and the task has written its buffer
\* afterwards.
C34_WrittenAfterReset ==
    /\ ~inNativeMode /\ pc = "join"
    /\ lastReport.block = "peak"
    /\ buffers.peakOutput = <<"peak">>

\* ------------------------------------------------------------------------
\* C39
\* ------------------------------------------------------------------------

\* The phase texts in a composed result.
C39_Reported ==
    { lastReport.out[i] : i \in DOMAIN lastReport.out } \cap PhaseTexts

\* C39 as stated: in JVM mode the result of a phase's runAndReturnStdOut
\* call holds no text of another phase.
C39_Original == ~inNativeMode => C39_Reported \subseteq {lastReport.block}

\* C39: in JVM mode the buffers are empty when runAndReturnStdOut returns.
C39_EmptyOnReturn ==
    [][~inNativeMode /\ lastReport' # lastReport =>
          buffers' = EmptyBuffers]_vars

\* C39: a text reported for its own phase.
C39_OwnText ==
    /\ ~inNativeMode /\ lastReport.block = "peak"
    /\ C39_Reported = {"peak"}

\* C39: the text of the peak phase in the result of the latency phase.
C39_StaleText ==
    /\ ~inNativeMode /\ lastReport.block = "latency"
    /\ "peak" \in C39_Reported

\* ------------------------------------------------------------------------
\* Vocabulary of the numeric properties
\* ------------------------------------------------------------------------
\* The factor of a unit in terms of the base unit of its table (ns, op/ns,
\* bytes), as the quotient of two products.
ExactFactor(unit) ==
    CASE unit \in {"ns", "op/ns", "B"} -> <<<<1>>, <<1>>>>
      [] unit = "us"     -> <<<<1000>>, <<1>>>>
      [] unit = "ms"     -> <<<<1000, 1000>>, <<1>>>>
      [] unit = "s"      -> <<<<1000, 1000, 1000>>, <<1>>>>
      [] unit = "min"    -> <<<<60, 1000, 1000, 1000>>, <<1>>>>
      [] unit = "h"      -> <<<<3600, 1000, 1000, 1000>>, <<1>>>>
      [] unit = "op/us"  -> <<<<1>>, <<1000>>>>
      [] unit = "op/ms"  -> <<<<1>>, <<1000, 1000>>>>
      [] unit = "op/s"   -> <<<<1>>, <<1000, 1000, 1000>>>>
      [] unit = "op/min" -> <<<<1>>, <<60, 1000, 1000, 1000>>>>
      [] unit = "op/h"   -> <<<<1>>, <<3600, 1000, 1000, 1000>>>>
      [] unit = "kB"     -> <<<<1000>>, <<1>>>>
      [] unit = "MB"     -> <<<<1000, 1000>>, <<1>>>>
      [] unit = "GB"     -> <<<<1000, 1000, 1000>>, <<1>>>>
      [] unit = "KiB"    -> <<<<1024>>, <<1>>>>
      [] unit = "MiB"    -> <<<<1024, 1024>>, <<1>>>>
      [] unit = "GiB"    -> <<<<1024, 1024, 1024>>, <<1>>>>

\* x times the product of the factors, unrounded: a number times a power of
\* two.
Scaled(x, factors) == [m |-> BigMul(x.m, BigProduct(factors)), e |-> x.e]

\* Relative tolerance of a value computed with fewer than 8 roundings of at
\* most 2^-FloatPrecision each, as a power of two.
ToleranceBits == FloatPrecision - 3

\* ------------------------------------------------------------------------
\* C21  computeAverage
\* ------------------------------------------------------------------------
C21_Done == call.fn = "computeAverage" /\ result.done

\* All results of the call have the keys of the first.
C21_SameKeys ==
    \A i \in 1..Len(call.results) : DOMAIN call.results[i] = DOMAIN call.results[1]

\* The exact sum of the values of key over the results 1 .. i, as a number
\* times a power of two.
RECURSIVE C21_ExactSum(_, _, _)
C21_ExactSum(results, key, i) ==
    IF i = 1 THEN results[1][key]
    ELSE LET a == C21_ExactSum(results, key, i - 1)
             b == results[i][key]
             e == IF a.e < b.e THEN a.e ELSE b.e
         IN  [m |-> BigAdd(BigShl(a.m, a.e - e), BigShl(b.m, b.e - e)), e |-> e]

\* value is the mean of the values of key within the tolerance:
\* count * value is next to the exact sum.
C21_IsMean(value, key) ==
    LET count == Len(call.results)
    IN  FloatWithin([m |-> BigMulLimb(value.m, count, 0), e |-> value.e],
                    C21_ExactSum(call.results, key, count), ToleranceBits)

\* The outcome of the call in the cases that C21 and its original share:
\* the abort on no result and on differing keys, the single result handed
\* back.
C21_Common ==
    /\ Len(call.results) = 0 => result.value.aborted
    /\ Len(call.results) = 1 => result.value = Returned(call.results[1])
    /\ Len(call.results) > 1 /\ ~C21_SameKeys => result.value.aborted
    /\ Len(call.results) > 1 /\ C21_SameKeys =>
          /\ ~result.value.aborted
          /\ DOMAIN result.value.value = DOMAIN call.results[1]

\* The results of the call are N copies of one result.
C21_Identical ==
    /\ Len(call.results) >= 1
    /\ \A i \in 1..Len(call.results) : call.results[i] = call.results[1]

\* C21 as stated: the common part, the mean of every key, and the average
\* over N identical results being that same result.
C21_Original ==
    C21_Done =>
        /\ C21_Common
        /\ Len(call.results) > 1 /\ C21_SameKeys =>
              \A key \in DOMAIN call.results[1] :
                  C21_IsMean(result.value.value[key], key)
        /\ C21_Identical => result.value = Returned(call.results[1])

\* C21: computeAverage aborts on no result, hands back the single result of
\* a sequence of length 1, aborts when a result's keys differ from those of
\* the first, and otherwise returns for every key the mean of its values,
\* summed in order and divided by the count in floating point (within a
\* relative error of 2^-ToleranceBits of the exact mean); the average over N
\* identical results is that result within the same tolerance, and the
\* result itself for N = 1 and N = 2.
C21_Average ==
    C21_Done =>
        /\ C21_Common
        /\ Len(call.results) > 1 /\ C21_SameKeys =>
              \A key \in DOMAIN call.results[1] :
                  C21_IsMean(result.value.value[key], key)
        /\ C21_Identical =>
              /\ \A key \in DOMAIN call.results[1] :
                    FloatWithin(result.value.value[key], call.results[1][key],
                                ToleranceBits)
              /\ Len(call.results) <= 2 =>
                    result.value = Returned(call.results[1])

\* C21 witness: the average of three results of throughput 0.1 has a
\* throughput above 0.1, and that of 0.1, 1.5, 1.5 is the mean of the three.
C21_Witness ==
    /\ C21_Done /\ Len(call.results) = 3 /\ C21_Identical
    /\ call.results[1]["throughput"] = FloatOfDecimal(1, 10)
    /\ FloatLess(FloatOfDecimal(1, 10), result.value.value["throughput"])

\* C21 witness of the failures: differing keys have made the call abort.
C21_AbortReached ==
    /\ C21_Done /\ Len(call.results) = 2 /\ ~C21_SameKeys
    /\ result.value.aborted

\* ------------------------------------------------------------------------
\* C22  computePeakThroughputRSS
\* ------------------------------------------------------------------------
C22_Done == call.fn = "computePeakThroughputRSS" /\ result.done

\* The datapoints of the call that the function uses.
C22_Tput == LastNamed(call.datapoints, "peak-throughput")

C22_Rss == LastNamed(call.datapoints, "max-rss")

\* Both datapoints are there, in units of their tables, the footprint not 0.
C22_BothUsable ==
    /\ C22_Tput # NoDatapoint /\ C22_Rss # NoDatapoint
    /\ C22_Tput.unit \in DOMAIN tputUnitTable
    /\ C22_Rss.unit \in DOMAIN memUnitTable
    /\ Len(C22_Rss.value.m) # 0

\* value is the throughput in op/s over the footprint in GB within the
\* tolerance: with t, r the two values and ft, fs, fr, fg the factors of
\* their units, of op/s and of GB, value * r * fr * fs is next to
\* t * ft * fg.
C22_IsQuotient(value) ==
    LET ft == ExactFactor(C22_Tput.unit)
        fs == ExactFactor("op/s")
        fr == ExactFactor(C22_Rss.unit)
        fg == ExactFactor("GB")
        vr == Scaled(value, fr[1] \o fg[2] \o ft[2] \o fs[1])
    IN  FloatWithin([m |-> BigMul(vr.m, C22_Rss.value.m),
                     e |-> vr.e + C22_Rss.value.e],
                    Scaled(C22_Tput.value, ft[1] \o fs[2] \o fr[2] \o fg[1]),
                    ToleranceBits)

\* The part that C22 and its original share: nothing is returned when one
\* of the two is absent; with both, the new datapoint is named
\* ops-per-GB-second, is better when higher, and is otherwise the
\* throughput datapoint.
C22_Common ==
    /\ C22_Tput = NoDatapoint \/ C22_Rss = NoDatapoint =>
          result.value = [kind |-> "None"]
    /\ C22_BothUsable =>
          /\ result.value.kind = "datapoint"
          /\ result.value.datapoint.name = "ops-per-GB-second"
          /\ result.value.datapoint.better = "higher"
          /\ result.value.datapoint.benchmark = C22_Tput.benchmark

\* The batch of the example: 1000 op/s and 2 GB.
C22_Example ==
    /\ C22_Tput = Datapoint("peak-throughput", FloatOfInt(1000), "op/s", "higher")
    /\ C22_Rss = Datapoint("max-rss", FloatOfInt(2), "GB", "lower")

C22_NoneReached ==
    /\ C22_Done /\ C22_Tput = NoDatapoint /\ C22_Rss # NoDatapoint
    /\ result.value.kind = "None" /\ result.validated.datapoints = call.datapoints

\* C22 witnesses of the failures: a footprint of 0 and a foreign unit.
C22_ZeroReached ==
    /\ C22_Done /\ result.value = Raised("ZeroDivisionError")

C22_AbortReached ==
    /\ C22_Done /\ result.value.kind = "aborted"

\* ------------------------------------------------------------------------
\* C23  Trailing datapoints dropped by BaseJMeterBenchmarkSuite.run
\* ------------------------------------------------------------------------
C23_Done == call.fn = "BaseJMeterBenchmarkSuite.run" /\ result.done

\* C23: the results handed to the trailing average are the results of the
\* superclass without their last floor(len / 10) elements, the others in
\* their order: the last 10 of 100 are dropped, none of 5.
C23_TrimTrailing ==
    C23_Done =>
        LET n == Len(call.results)
        IN  /\ result.skipped = n \div 10
            /\ Len(result.averaged) = n - (n \div 10)
            /\ \A i \in 1..Len(result.averaged) :
                  result.averaged[i] = call.results[i]
            /\ n = 100 => result.averaged = [i \in 1..90 |-> call.results[i]]
            /\ n = 5 => result.averaged = call.results

\* C23 witness: 37 results, the last 3 dropped.
C23_Witness ==
    /\ C23_Done /\ Len(call.results) = 37
    /\ result.skipped = 3 /\ result.averaged = [i \in 1..34 |-> i]

\* C23 witness of the examples: 100 results, 90 kept.
C23_HundredReached ==
    /\ C23_Done /\ Len(call.results) = 100 /\ Len(result.averaged) = 90

\* ------------------------------------------------------------------------
\* C24  extractThroughput and extractWrk2Results
\* ------------------------------------------------------------------------
C24_Done == call.fn = "extractWrk2Results" /\ result.done

\* The throughput lines and the latency lines of the output.
C24_ThroughputLines ==
    { i \in 1..Len(call.output) : MatchesThroughput(call.output[i]) }

C24_LatencyLines ==
    { i \in 1..Len(call.output) : MatchesLatency(call.output[i]) }

\* The last latency line of a percentile.
C24_LastOf(percentile) ==
    LET at == { i \in C24_LatencyLines : call.output[i][1] = percentile }
    IN  call.output[CHOOSE i \in at : \A j \in at : j <= i]

\* value is the latency of the line in milliseconds within the tolerance:
\* with n / d the number of the line and f the factor of its unit in ns,
\* value * d * 1000000 is next to n * f.
C24_InMilliseconds(value, line) ==
    LET number == DecimalOf(line[2])
    IN  FloatWithin(
            Scaled(value, <<number[2]>> \o ExactFactor("ms")[1]
                            \o ExactFactor(line[3])[2]),
            [m |-> BigProduct(<<number[1]>> \o ExactFactor(line[3])[1]
                                \o ExactFactor("ms")[2]),
             e |-> 0],
            ToleranceBits)

\* C24: extractThroughput fails unless exactly one throughput line of the
\* output matches; extractWrk2Results fails then too, and also unless at
\* least one latency line matches; when it returns, it returns the
\* throughput and for every percentile of a latency line the latency of the
\* last such line in milliseconds, whatever the unit of the line.
C24_Extract ==
    C24_Done =>
        /\ Cardinality(C24_ThroughputLines) # 1 =>
              /\ result.throughput.kind = "aborted"
              /\ result.value.kind = "aborted"
        /\ result.throughput.kind # "returned" => result.value.kind # "returned"
        /\ C24_LatencyLines = {} => result.value.kind # "returned"
        /\ result.value.kind = "returned" =>
              /\ DOMAIN result.value.value =
                    {"throughput"}
                      \cup { call.output[i][1] : i \in C24_LatencyLines }
              /\ result.value.value["throughput"] = result.throughput.value
              /\ \A i \in C24_LatencyLines :
                    C24_InMilliseconds(result.value.value[call.output[i][1]],
                                       C24_LastOf(call.output[i][1]))

\* C24 witness: 750 us have been returned as 0.75 ms, with the throughput.
C24_Witness ==
    /\ C24_Done /\ Len(call.output) = 2
    /\ call.output[1] = <<"Requests/sec:", "1500">>
    /\ call.output[2] = <<"50.000%", "750", "us">>
    /\ result.value =
          ReturnedValue([k \in {"throughput", "50.000%"} |->
                            IF k = "throughput" THEN FloatOfInt(1500)
                            ELSE FloatOfDecimal(75, 100)])

\* C24 witnesses of the failures: two throughput lines, no latency line.
C24_TwoThroughputsReached ==
    /\ C24_Done /\ Cardinality(C24_ThroughputLines) = 2
    /\ C24_LatencyLines # {} /\ result.value.kind = "aborted"

C24_NoLatencyReached ==
    /\ C24_Done /\ result.throughput.kind = "returned"
    /\ C24_LatencyLines = {} /\ result.value.kind = "aborted"

\* C24 witness of the number that float() refuses.
C24_ValueErrorReached ==
    /\ C24_Done /\ Cardinality(C24_ThroughputLines) = 1
    /\ result.value = Raised("ValueError")

\* ------------------------------------------------------------------------
\* C25  Throughput verification
\* ------------------------------------------------------------------------
C25_Done == call.fn = "verifyWarmup" /\ result.done

\* The throughput lines of the output verified.
C25_ThroughputLines ==
    { i \in 1..Len(call.output) : MatchesThroughput(call.output[i]) }

\* The one throughput line, when there is one.
C25_Line == call.output[CHOOSE i \in C25_ThroughputLines : TRUE]

\* The achieved throughput n / d is below 97% or above 103% of the expected
\* rate p / q: 100 n q < 97 p d or 100 n q > 103 p d.
C25_Deviates ==
    LET n == DecimalOf(C25_Line[2])[1]
        d == DecimalOf(C25_Line[2])[2]
        p == call.config[1]
        q == call.config[2]
        achieved == BigProduct(<<100, n, q>>)
    IN  \/ ~BigGeq(achieved, BigProduct(<<97, p, d>>))
        \/ ~BigGeq(BigProduct(<<103, p, d>>), achieved)

\* The verification warns exactly when the throughput deviates.
C25_WarnsOnDeviation ==
    Cardinality(C25_ThroughputLines) = 1 /\ IsFloatText(C25_Line[2]) =>
        result.value = Verified(C25_Deviates)

\* C25 as stated: the verification warns exactly when the throughput
\* deviates by more than 3%, and never fails the run.
C25_Original ==
    C25_Done =>
        /\ result.value.kind = "returned"
        /\ C25_WarnsOnDeviation

\* C25: when the output has exactly one throughput line, with a number that
\* float() takes, the verification warns exactly when the achieved
\* throughput is below 97% or above 103% of the expected rate, and returns
\* whether it warns or not; it aborts the run when the output has no or
\* several throughput lines, and raises ValueError on a number that float()
\* refuses.
C25_Verification ==
    C25_Done =>
        /\ C25_WarnsOnDeviation
        /\ Cardinality(C25_ThroughputLines) # 1 => result.value.kind = "aborted"
        /\ Cardinality(C25_ThroughputLines) = 1 /\ ~IsFloatText(C25_Line[2]) =>
              result.value = Raised("ValueError")

\* C25 witness: 1546 requests a second for an expected 1500 have drawn the
\* warning and the verification has returned.
C25_Witness ==
    /\ C25_Done /\ call.config = <<1500, 1>>
    /\ C25_ThroughputLines # {} /\ C25_Line = <<"Requests/sec:", "1546">>
    /\ result.value = Verified(TRUE)

\* C25 witness of the limit: 1455 for an expected 1500 draws no warning.
C25_LimitReached ==
    /\ C25_Done /\ call.config = <<1500, 1>>
    /\ C25_ThroughputLines # {} /\ C25_Line = <<"Requests/sec:", "1455">>
    /\ result.value = Verified(FALSE)

\* C25 witness of the abort: an output with no throughput line.
C25_AbortReached ==
    /\ C25_Done /\ Len(call.output) = 1 /\ C25_ThroughputLines = {}
    /\ result.value.kind = "aborted"

\* ------------------------------------------------------------------------
\* C26  Cardinality of the parallel fields in loadConfiguration
\* ------------------------------------------------------------------------
\* A group with its four mandatory keys has been loaded.
C26_Group == call.config[call.groupKey]

C26_Loaded ==
    /\ call.fn = "loadConfiguration" /\ result.done
    /\ C26_Group # Absent
    /\ \A i \in 1..Len(MandatoryKeys) : C26_Group[MandatoryKeys[i]] # Absent

\* The four mandatory values of the group.
C26_Four == { C26_Group[MandatoryKeys[i]] : i \in 1..Len(MandatoryKeys) }

C26_AllScalars == \A v \in C26_Four : v.type = "scalar"

C26_AllListsOf(n) == \A v \in C26_Four : v.type = "list" /\ Len(v.items) = n

\* requests-per-second is absent or has the cardinality of script: the
\* groups whose outcome the four keys decide.
C26_RateFits ==
    LET rate == C26_Group["requests-per-second"]
    IN  \/ rate = Absent
        \/ /\ rate.type = C26_Group["script"].type
           /\ rate.type = "scalar" => rate.value[2] # 0
           /\ rate.type = "list" =>
                 Len(rate.items) = Len(C26_Group["script"].items)

\* The group in list form: every scalar as the list of that one value.
C26_ListForm ==
    [k \in GroupKeys |->
        IF C26_Group[k].type = "scalar" THEN ListValue(<<C26_Group[k].value>>)
        ELSE C26_Group[k]]

C26_ScalarReached ==
    /\ C26_Loaded /\ C26_AllScalars /\ call.groupKey = "throughput"
    /\ result.value.kind = "returned" /\ Len(result.value.value) = 1

C26_AbortReached ==
    /\ C26_Loaded /\ C26_Group["script"].type = "list"
    /\ C26_Group["duration"].type = "list"
    /\ Len(C26_Group["duration"].items) < Len(C26_Group["script"].items)
    /\ C26_Group["warmup-duration"].type = "list"
    /\ Len(C26_Group["warmup-duration"].items) = Len(C26_Group["script"].items)
    /\ result.value = AbortedWith(SameCountMessage)

\* ------------------------------------------------------------------------
\* C27  Cardinality of requests-per-second in loadConfiguration
\* ------------------------------------------------------------------------
\* requests-per-second is there and has not the cardinality of script: a
\* list beside a scalar script, a scalar beside a list of scripts, or a
\* list of another length.
C27_RateMismatch ==
    LET rate   == C26_Group["requests-per-second"]
        script == C26_Group["script"]
    IN  /\ rate # Absent
        /\ \/ rate.type # script.type
           \/ /\ rate.type = "list"
              /\ Len(rate.items) # Len(script.items)

\* C27 as stated: a configuration that loadConfiguration accepts has no such
\* mismatch, and a mismatch is rejected with the configuration error of the
\* other parallel fields.
C27_Original ==
    C26_Loaded =>
        /\ result.value.kind = "returned" => ~C27_RateMismatch
        /\ (C26_AllScalars \/ \E n \in 0..MaxConfigured : C26_AllListsOf(n))
             /\ C27_RateMismatch => result.value = AbortedWith(SameCountMessage)

\* What the code does with a mismatch, the four mandatory values being
\* lists of one length n: a longer list of rates is accepted and its first n
\* elements are used, a shorter one ends the loop with IndexError, a number
\* with TypeError; beside a scalar script, a list of rates is handed on
\* whole.
C27_Unvalidated ==
    C26_Loaded /\ C27_RateMismatch =>
        LET rate == C26_Group["requests-per-second"]
        IN  /\ \A n \in 1..MaxConfigured :
                  C26_AllListsOf(n) =>
                      /\ rate.type = "list" /\ Len(rate.items) > n =>
                            /\ result.value.kind = "returned"
                            /\ \A i \in 1..n :
                                  result.value.value[i]["requests-per-second"]
                                      = rate.items[i]
                      /\ rate.type = "list" /\ Len(rate.items) \in 1..(n - 1) =>
                            result.value = Raised("IndexError")
                      /\ rate.type = "scalar" /\ rate.value[2] # 0 =>
                            result.value = Raised("TypeError")
            /\ C26_AllScalars /\ rate.type = "list" /\ Len(rate.items) > 0 =>
                  /\ result.value.kind = "returned"
                  /\ result.value.value[1]["requests-per-second"] = rate.items

\* A list of three rates beside two scripts has been accepted.
C27_LongerAccepted ==
    /\ C26_Loaded /\ C26_AllListsOf(2)
    /\ C26_Group["requests-per-second"] = ListOf("requests-per-second", 3)
    /\ result.value.kind = "returned" /\ Len(result.value.value) = 2

\* ------------------------------------------------------------------------
\* C28  Round trip of the unit conversion
\* ------------------------------------------------------------------------
\* A conversion between two units of the table has been made.
C28_Converted ==
    /\ call.fn = "convertValue" /\ result.done /\ ~result.value.aborted

\* The value converted back from toUnit to fromUnit.
C28_Back ==
    convertValue(UnitTable(call.table), result.value.value,
                 call.toUnit, call.fromUnit).value

\* C28 as stated: converting v from A to B and back from B to A gives a
\* float equal to v, for every table, pair of units and value.
C28_Original == C28_Converted => C28_Back = call.value

\* C28: converting v from A to B and back from B to A gives v within
\* floating-point tolerance (a relative error of at most 2^-ToleranceBits),
\* for every table, pair of units and value; it is v itself when A = B is
\* the base unit of an integer table.
C28_RoundTrip ==
    C28_Converted =>
        /\ FloatWithin(C28_Back, call.value, ToleranceBits)
        /\ (call.fromUnit = call.toUnit /\ call.fromUnit \in {"ns", "B"}
              => C28_Back = call.value)

\* C28 witness: a round trip between two different units that comes back
\* next to, not on, the value it started from.
C28_Witness ==
    /\ C28_Converted /\ call.table = "time"
    /\ call.fromUnit = "ms" /\ call.toUnit = "h"
    /\ call.value = FloatOfInt(1)
    /\ C28_Back # call.value /\ FloatLess(C28_Back, call.value)

\* ------------------------------------------------------------------------
\* C29  convertValue
\* ------------------------------------------------------------------------
\* The float of the factor of a unit.
C29_FloatFactor(unit) ==
    FloatDiv(FloatOfBig(BigProduct(ExactFactor(unit)[1])),
             FloatOfBig(BigProduct(ExactFactor(unit)[2])))

\* The units of each table.
C29_Units(name) ==
    CASE name = "time" -> {"ns", "us", "ms", "s", "min", "h"}
      [] name = "tput" -> {"op/ns", "op/us", "op/ms", "op/s", "op/min", "op/h"}
      [] name = "mem"  -> {"B", "kB", "MB", "GB", "KiB", "MiB", "GiB"}

\* C29: convertValue fails with an unexpected-unit error when fromUnit or
\* toUnit is not a unit of the table, and otherwise returns
\* value * factor(fromUnit) / factor(toUnit), the factors being those of the
\* units in terms of the table's base unit, 1000^k for kB, MB, GB and
\* 1024^k for KiB, MiB, GiB.
C29_ConvertValue ==
    call.fn = "convertValue" /\ result.done =>
        IF call.fromUnit \in C29_Units(call.table)
             /\ call.toUnit \in C29_Units(call.table)
        THEN /\ ~result.value.aborted
             /\ result.value.value =
                  FloatDiv(FloatMul(call.value, C29_FloatFactor(call.fromUnit)),
                           C29_FloatFactor(call.toUnit))
        ELSE /\ result.value.aborted
             /\ result.value.message[1] = "Unexpected unit: "

\* C29 witness: 1.5 KiB are 1.536 kB.
C29_Witness ==
    /\ call.fn = "convertValue" /\ result.done
    /\ call.table = "mem" /\ call.fromUnit = "KiB" /\ call.toUnit = "kB"
    /\ call.value = FloatOfDecimal(3, 2)
    /\ result.value = Converted(FloatOfDecimal(1536, 1000))

\* C29 witness of the failure: a unit of another table as toUnit.
C29_AbortReached ==
    /\ call.fn = "convertValue" /\ result.done
    /\ call.table = "time" /\ call.fromUnit = "ms" /\ call.toUnit = "MiB"
    /\ result.value.aborted

\* ------------------------------------------------------------------------
\* C30  strip_args_with_number
\* ------------------------------------------------------------------------
C30_Done == call.fn = "strip_args_with_number" /\ result.done

\* The options stripped, as a set.
C30_Options ==
    { AsList(call.strip_args)[i] : i \in 1..Len(AsList(call.strip_args)) }

\* Element i of args is a single-character option of strip_args with an
\* integer attached.
C30_Attached(i) ==
    \E o \in C30_Options :
        /\ Len(o) = 2 /\ o[1] = "-"
        /\ Len(call.args[i]) > 2 /\ SubSeq(call.args[i], 1, 2) = o
        /\ IsInt(SubSeq(call.args[i], 3, Len(call.args[i])))

\* The elements of args that the claim has removed: the options, the
\* element after each, and the options with an integer attached.
C30_Removed ==
    { i \in 1..Len(call.args) :
        \/ call.args[i] \in C30_Options
        \/ i > 1 /\ call.args[i - 1] \in C30_Options
        \/ C30_Attached(i) }

\* The elements of a sequence at the indices of a set, in their order.
RECURSIVE C30_Pick(_, _, _)
C30_Pick(seq, keep, i) ==
    IF i > Len(seq) THEN << >>
    ELSE (IF i \in keep THEN <<seq[i]>> ELSE << >>) \o C30_Pick(seq, keep, i + 1)

C30_Kept == C30_Pick(call.args, (1..Len(call.args)) \ C30_Removed, 1)

\* C30 as stated: the result is args without every stripped option, the
\* element after it and every single-character option with its integer
\* attached, all other elements in their order.
C30_Original == C30_Done => result.value = C30_Kept

\* Every stripped option of args is followed by a value: an element that is
\* no stripped option and no option with its integer attached.
C30_OptionsHaveValues ==
    \A i \in 1..Len(call.args) :
        call.args[i] \in C30_Options =>
            /\ i < Len(call.args)
            /\ call.args[i + 1] \notin C30_Options
            /\ ~C30_Attached(i + 1)

\* result is args with some elements left out, the others in their order.
C30_IsSubsequence ==
    \E keep \in SUBSET (1..Len(call.args)) :
        result.value = C30_Pick(call.args, keep, 1)

\* C30: the result is args with elements left out and the others in their
\* order; it has no element equal to a stripped option and no
\* single-character stripped option with an integer attached; and when
\* every stripped option in args is followed by a value, the result is args
\* without exactly the options, their values and the options with an
\* integer attached.
C30_Strip ==
    C30_Done =>
        /\ C30_IsSubsequence
        /\ \A i \in 1..Len(result.value) :
              /\ result.value[i] \notin C30_Options
              /\ \A o \in C30_Options :
                    Len(o) = 2 /\ o[1] = "-" /\ HasPrefix(result.value[i], o)
                      => ~IsInt(SubSeq(result.value[i], 3, Len(result.value[i])))
        /\ C30_OptionsHaveValues => result.value = C30_Kept

\* C30 witness: -i 8 -i8 stripped of -i leaves nothing, and -ix stays.
C30_Witness ==
    /\ C30_Done /\ call.strip_args = [list |-> FALSE, value |-> <<"-", "i">>]
    /\ call.args = <<<<"-", "i">>, <<"8">>, <<"-", "i", "8">>>>
    /\ result.value = << >>

\* C30 witness of a kept value: -i -i 8 stripped of -i leaves 8, the second
\* -i being taken for the value of the first.
C30_ValueKept ==
    /\ C30_Done /\ call.strip_args = [list |-> TRUE, value |-> <<<<"-", "i">>>>]
    /\ call.args = <<<<"-", "i">>, <<"-", "i">>, <<"8">>>>
    /\ result.value = <<<<"8">>>>

\* ------------------------------------------------------------------------
\* C31
\* ------------------------------------------------------------------------

\* The arguments of the call that start with the stages option, by index.
C31_Occurrences == { i \in 1..Len(call.args) : StartsWith(call.args[i], StagesPrefix) }

\* The values those occurrences carry: what follows the prefix up to the
\* first space or repetition of the prefix.
C31_Values ==
    { UpTo(Tail(call.args[i]), {" ", StagesPrefix}) : i \in C31_Occurrences }

\* C31 as stated: when the stages option appears more than once in args,
\* stages() aborts (stages should only be specified once); it never returns
\* the stages of one of several occurrences.
C31_Original ==
    (call.fn = "stages" /\ result.done /\ Cardinality(C31_Occurrences) > 1) =>
        result.aborted

\* What the code does instead: stages() aborts exactly when the occurrences
\* carry more than one distinct value.
C31_DistinctValuesAbort ==
    (call.fn = "stages" /\ result.done) =>
        (result.aborted <=> Cardinality(C31_Values) > 1)

\* The option is given twice with the same value and stages() returned its
\* stages.
C31_RepeatedAccepted ==
    /\ call.fn = "stages" /\ result.done /\ ~result.aborted
    /\ Cardinality(C31_Occurrences) = 2
    /\ call.args[1] = call.args[2]
    /\ result.value = << <<"image">>, <<"run">> >>

\* The option is given twice with different values and stages() aborted.
C31_AbortReached ==
    /\ call.fn = "stages" /\ result.done /\ result.aborted
    /\ Cardinality(C31_Occurrences) = 2

\* ------------------------------------------------------------------------
\* C32
\* ------------------------------------------------------------------------

\* A thread of phase b has been started during the run.
C32_Started(b) == \E i \in 1..Len(started) : started[i] = b

\* The phases started so far follow the order time-to-first-response,
\* startup, peak, latency calibration, latency.
C32_Ordered ==
    \A i, j \in 1..Len(started) :
        i < j => PositionOf(started[i]) <= PositionOf(started[j])

\* C32 as stated: with --skip-first-response-measurements,
\* --skip-startup-measurements, --skip-peak-measurements or
\* --skip-latency-measurements the corresponding phase (for latency also the
\* calibration) is never started, in JVM mode and in native mode alike, and
\* the phases that run keep the order time-to-first-response, startup, peak,
\* latency calibration, latency.
C32_Original ==
    /\ ~measureFirstResponse => ~C32_Started("ttfr")
    /\ ~measureStartup => ~C32_Started("startup")
    /\ ~measurePeak => ~C32_Started("peak")
    /\ ~measureLatency => ~C32_Started("calib") /\ ~C32_Started("latency")
    /\ C32_Ordered

\* What the code does: run (JVM mode) honours the four flags, run_stage
\* (native mode) honours --skip-latency-measurements only, and the order of
\* the phases is the same in both.
C32_JvmSkips ==
    /\ ~inNativeMode =>
          /\ ~measureFirstResponse => ~C32_Started("ttfr")
          /\ ~measureStartup => ~C32_Started("startup")
          /\ ~measurePeak => ~C32_Started("peak")
    /\ ~measureLatency => ~C32_Started("calib") /\ ~C32_Started("latency")
    /\ C32_Ordered

\* In native mode, stage 'run', the startup phase was started although
\* --skip-startup-measurements was given.
C32_NativeIgnored ==
    /\ inNativeMode /\ stage = "run" /\ ~measureStartup
    /\ C32_Started("startup")

\* In JVM mode peak and latency ran with the two phases before them skipped.
C32_JvmSkipped ==
    /\ ~inNativeMode /\ ~measureFirstResponse /\ ~measureStartup
    /\ started = <<"peak", "calib", "latency">> /\ pc = "returned"

\* ------------------------------------------------------------------------
\* C37
\* ------------------------------------------------------------------------

C37_Done == call.fn = "computeAverage" /\ result.done

\* The first key mismatch of the call, 0 when all results have the keys of
\* the first.
C37_FirstMismatch ==
    LET bad == { i \in 2..Len(call.results) :
                    DOMAIN call.results[i] # DOMAIN call.results[1] }
    IN  IF bad = {} THEN 0 ELSE CHOOSE x \in bad : \A y \in bad : x <= y

\* C37 as stated: computeAverage leaves its input unchanged; after the call
\* every result of the sequence holds the key/value pairs it held before,
\* for sequences of any length.
C37_Original == C37_Done => result.results = call.results

\* C37 amended: computeAverage leaves every result but the first unchanged
\* and leaves a sequence of fewer than two results unchanged; for two or
\* more results with equal keys the first result holds the returned average
\* after the call, and after an abort on differing keys it holds, for each
\* of its keys, the sum of the values of the results before the mismatch.
C37_FrameEffect ==
    C37_Done =>
        /\ Len(result.results) = Len(call.results)
        /\ \A i \in 2..Len(call.results) : result.results[i] = call.results[i]
        /\ Len(call.results) = 1 => result.results = call.results
        /\ (Len(call.results) > 1 /\ ~result.value.aborted) =>
              result.results[1] = result.value.value
        /\ (Len(call.results) > 1 /\ result.value.aborted) =>
              /\ C37_FirstMismatch > 1
              /\ \A key \in DOMAIN call.results[1] :
                    result.results[1][key] =
                        SumTo(call.results, key, C37_FirstMismatch - 1)

\* C37 witness: of two results of throughput 0.1 and 1.5 the first holds
\* another throughput after the call, the second is as it was.
C37_Witness ==
    /\ C37_Done /\ Len(call.results) = 2 /\ ~result.value.aborted
    /\ call.results[1]["throughput"] = FloatOfDecimal(1, 10)
    /\ call.results[2]["throughput"] = FloatOfDecimal(3, 2)
    /\ result.results[1]["throughput"] # call.results[1]["throughput"]
    /\ result.results[2] = call.results[2]

\* C37 witness of the abort: the third result has other keys, and the first
\* holds the sum of the first two.
C37_AbortReached ==
    /\ C37_Done /\ Len(call.results) = 3 /\ result.value.aborted
    /\ C37_FirstMismatch = 3
    /\ result.results[1] # call.results[1]

\* ------------------------------------------------------------------------
\* C40
\* ------------------------------------------------------------------------

\* A call of one of the functions that read the output of the load generator
\* has ended.
C40_Done == call.fn \in {"extractWrk2Results", "verifyWarmup"} /\ result.done

\* The outcome is a parse error (mx.abort) or a value.
C40_AbortOrValue(outcome) == outcome.kind \in {"aborted", "returned"}

\* The lines of the output that match the throughput or the latency pattern.
C40_Matching ==
    { i \in 1..Len(call.output) :
        MatchesThroughput(call.output[i]) \/ MatchesLatency(call.output[i]) }

\* C40 as stated: for every output text of the load generator,
\* extractThroughput, verifyThroughput and extractWrk2Results either abort
\* with a parse error or yield numeric values; a line that matches the
\* throughput or latency pattern always carries a number that float()
\* converts.
C40_Original ==
    C40_Done =>
        /\ \A i \in C40_Matching : IsFloatText(call.output[i][2])
        /\ C40_AbortOrValue(result.value)
        /\ call.fn = "extractWrk2Results" => C40_AbortOrValue(result.throughput)

\* What the code does: the functions end in another way than an abort or a
\* value exactly by the ValueError of float(), and only when a matching line
\* carries a text that is no number.
C40_ValueErrorOnly ==
    C40_Done =>
        /\ ~C40_AbortOrValue(result.value) =>
              /\ result.value = Raised("ValueError")
              /\ \E i \in C40_Matching : ~IsFloatText(call.output[i][2])
        /\ (\A i \in C40_Matching : IsFloatText(call.output[i][2])) =>
              C40_AbortOrValue(result.value)

\* The one throughput line carries "1,5" and extractThroughput has ended with
\* the ValueError.
C40_CommaRaises ==
    /\ call.fn = "extractWrk2Results" /\ result.done
    /\ call.output = << <<"Requests/sec:", "1,5">> >>
    /\ result.throughput = Raised("ValueError")

\* A latency line with no number has ended extractWrk2Results with the
\* ValueError, the throughput having been read.
C40_EmptyRaises ==
    /\ call.fn = "extractWrk2Results" /\ result.done
    /\ call.output = << <<"Requests/sec:", "1500">>, <<"50.000%", "", "s">> >>
    /\ result.throughput.kind = "returned"
    /\ result.value = Raised("ValueError")

\* verifyThroughput has ended with the ValueError on "1,5".
C40_VerifyRaises ==
    /\ call.fn = "verifyWarmup" /\ result.done
    /\ result.value = Raised("ValueError")

\* ------------------------------------------------------------------------
\* C38
\* ------------------------------------------------------------------------

\* The launches of the service of the latency phase, by their index among
\* the launches of the run (the k-th thread started goes with the k-th
\* service launched).
C38_LatencyLaunches ==
    { k \in 1..Len(tracked) : k <= Len(started) /\ started[k] = "latency" }

\* C38 as stated: the latency phase always runs without the RSS tracker, in
\* native mode and in JVM mode, whether or not a calibration phase preceded
\* it, and the tracker is enabled again when run returns normally.
C38_Original ==
    /\ \A k \in C38_LatencyLaunches : ~tracked[k]
    /\ pc = "returned" => trackerEnabled

\* What the code does: in native mode the latency phase runs without the
\* tracker; in JVM mode it runs without the tracker exactly when the
\* calibration phase precedes it (no script has a fixed rate); the tracker
\* is enabled when the flow returns.
C38_TrackerOffAfterCalibration ==
    /\ \A k \in C38_LatencyLaunches :
          tracked[k] <=> (~inNativeMode /\ ~NeedsCalibration(latencyRps))
    /\ pc = "returned" => trackerEnabled /\ hooksEnabled

\* In JVM mode, a fixed rate configured, the latency service was launched
\* under the tracker and run has returned.
C38_LatencyTracked ==
    /\ ~inNativeMode /\ pc = "returned"
    /\ \E k \in C38_LatencyLaunches : tracked[k]

\* In JVM mode, after a calibration, the latency service was launched
\* without the tracker and run has returned.
C38_LatencyUntracked ==
    /\ ~inNativeMode /\ pc = "returned"
    /\ \E k \in C38_LatencyLaunches : ~tracked[k] /\ started[k - 1] = "calib"

\* ------------------------------------------------------------------------
\* C36
\* ------------------------------------------------------------------------

\* The tasks of the latency phase that are about to run testLatency.
C36_LatencyTasks == { t \in threads : t.target = "latency" /\ t.pc = "workload" }

\* The scripts for which testLatency needs a calibrated throughput: those
\* with no fixed requests-per-second.
C36_Uncalibrated == { i \in 1..Len(latencyRps) : latencyRps[i] = 0 }

\* C36 as stated: whenever testLatency needs a calibrated throughput for
\* script i, a calibration phase has run earlier in the same run and has
\* stored a maximum throughput for script i, also when only some scripts
\* have a fixed rate.
C36_Original ==
    C36_LatencyTasks # {} =>
        \A i \in C36_Uncalibrated :
            C32_Started("calib") /\ i \in DOMAIN calibratedThroughput

\* What the code does: the calibration phase precedes testLatency exactly
\* when no script has a fixed rate; when a script has one, nothing is
\* stored, and testLatency never gets past a script without a rate of
\* either kind.
C36_CalibratedWhenNoneFixed ==
    /\ C36_LatencyTasks # {} =>
          /\ C32_Started("calib") <=> NeedsCalibration(latencyRps)
          /\ ~NeedsCalibration(latencyRps) => calibratedThroughput = << >>
    /\ \A i \in 1..Len(latencyRates) :
          HasRate(latencyRps, calibratedThroughput, i)

\* The first script has a fixed rate, the second has none: no calibration
\* was started, and the latency task ended in testLatency after the first
\* script.
C36_MixedUncalibrated ==
    /\ latencyRps = <<500, 0>> /\ ~C32_Started("calib")
    /\ latencyRates = <<500>>
    /\ \E t \in threads : t.target = "latency" /\ t.pc = "aborted"

\* No script has a fixed rate: the calibration stored a throughput for both
\* and testLatency measured both.
C36_AllCalibrated ==
    /\ latencyRps = <<0, 0>> /\ C32_Started("calib")
    /\ Len(calibratedThroughput) = 2 /\ Len(latencyRates) = 2


\* ------------------------------------------------------------------------
\* C35
\* ------------------------------------------------------------------------

\* The controlling flow is inside a phase: blocked on the service process or
\* on the join of the phase's task.
C35_Blocked == pc \in {"wait", "join"}

\* C35 as stated: under fair scheduling, with every signalled service
\* exiting, the controlling flow that waits for the service or for the task
\* of a phase eventually goes on, to the next phase or to the end of the run.
C35_Original == C35_Blocked ~> ~C35_Blocked

\* C35: the controlling flow goes on unless the task of the phase has ended
\* by an exception other than mx.abort, which signals nothing.
C35_EndsUnlessRaised ==
    C35_Blocked ~> (~C35_Blocked \/ \E t \in threads : t.pc = "raised")

\* C35: the flow waits on a service nobody will signal: the task has raised
\* at its workload and no other task exists.
C35_Stuck ==
    /\ pc = "wait"
    /\ \A t \in threads : t.pc = "raised"
    /\ threads # {}
    /\ \E p \in procs : p.kind = "service" /\ Running(p) /\ ~p.signalled

====
